---- MODULE Spec2Model ----
(***************************************************************************)
(* Model of the introspection and evaluation core of netcoredbg:           *)
(*   - the evaluator (NotifyEvalComplete, WaitEvalResult, EvalFunction,    *)
(*     EvalObjectNoConstructor) of valuewalk.cpp, as threads stepping      *)
(*     through the mutex / condition variable / flag triple;               *)
(*   - the member walker (WalkMembers) and the frame walker                *)
(*     (WalkStackVars) of valuewalk.cpp, as operators over a modelled      *)
(*     metadata and value universe;                                        *)
(*   - the type name composition of typeprinter.cpp that the walkers use.  *)
(* Names are sequences of one-character strings, so that prefix tests,     *)
(* rfind and substr are computed as the code computes them.                *)
(***************************************************************************)
EXTENDS Naturals, Integers, Sequences, FiniteSets, TLC

VARIABLES
    \* ---- evaluator (valuewalk.cpp:23-131)
    evCallers,        \* the debugger-side threads that issue evaluations
    pc,               \* position of each caller thread
    hist,             \* per caller: what its current / last call has done
    callsLeft,        \* per caller: evaluations it may still start
    g_evalMutex,      \* owner of g_evalMutex: "free" or a thread
    g_evalComplete,   \* the shared completion flag
    cvWaiters,        \* threads blocked inside g_evalCV.wait
    npc,              \* position of the event thread in NotifyEvalComplete
    nfor,             \* the evaluation the running notify belongs to
    pending,          \* evaluations resumed and not yet notified
    strayLeft,        \* notifies the event source may still deliver while idle
    \* ---- member walker (valuewalk.cpp:133-362)
    wpc, wIn, wOut,
    \* ---- frame walker (valuewalk.cpp:364-547)
    spc, sIn, sOut,
    \* ---- type printer (typeprinter.cpp:165-362)
    tpc, tIn, tOut

evalVars  == <<evCallers, pc, hist, callsLeft, g_evalMutex, g_evalComplete,
               cvWaiters, npc, nfor, pending, strayLeft>>
walkVars  == <<wpc, wIn, wOut>>
stackVars == <<spc, sIn, sOut>>
typeVars  == <<tpc, tIn, tOut>>
vars      == <<evalVars, walkVars, stackVars, typeVars>>

(***************************************************************************)
(* Bounds of the model.                                                    *)
(***************************************************************************)
MaxCalls == 2
MaxStray == 1
MaxOverlapCalls == 1

(***************************************************************************)
(* Evaluator                                                               *)
(***************************************************************************)
Callers  == {"c1", "c2"}
Notifier == "n"
NoEval   == <<"none", 0>>

\* The calls that EvalFunction makes before WaitEvalResult, in order.
EvalFunctionSteps ==
    <<"GetProcess", "CreateEval", "QueryInterface", "CallParameterizedFunction">>

\* The calls that EvalObjectNoConstructor makes before WaitEvalResult, in order.
EvalObjectNoConstructorSteps ==
    <<"GetProcess", "CreateEval", "GetClass", "QueryInterface",
      "NewParameterizedObjectNoConstructor">>

EvalKinds == {"EvalFunction", "EvalObjectNoConstructor"}

SetupSteps(kind) ==
    IF kind = "EvalFunction" THEN EvalFunctionSteps ELSE EvalObjectNoConstructorSteps

Range(s) == {s[i] : i \in DOMAIN s}

\* Mutant of EvalSetup: a failed submission is not returned.
EvalSetup_SubmitUnchecked(kind, failAt) ==
    IF failAt \in {"none", "CallParameterizedFunction",
                   "NewParameterizedObjectNoConstructor"}
    THEN "lock" ELSE "return"

\* IfFailRet on every setup call: the first failing call returns at once,
\* otherwise the function goes on into WaitEvalResult.
EvalSetup(kind, failAt) ==
    IF failAt = "none" THEN "lock" ELSE "return"

\* std::mutex::unlock by thread t. Unlocking a mutex the thread does not own
\* is undefined: the build either leaves the mutex alone or releases it.
UnlockOutcomes(owner, t) ==
    IF owner = t THEN {"free"} ELSE {owner, "free"}

NewHist(kind, failAt, no) ==
    [kind |-> kind, failedAt |-> failAt, callNo |-> no, status |-> "running",
     cleared |-> FALSE, resumeCalled |-> FALSE, resumed |-> FALSE,
     waited |-> FALSE, ownSet |-> FALSE, staleAtClear |-> FALSE,
     setSinceClear |-> FALSE, lateStray |-> FALSE]

IdleHist ==
    [kind |-> "none", failedAt |-> "none", callNo |-> 0, status |-> "none",
     cleared |-> FALSE, resumeCalled |-> FALSE, resumed |-> FALSE,
     waited |-> FALSE, ownSet |-> FALSE, staleAtClear |-> FALSE,
     setSinceClear |-> FALSE, lateStray |-> FALSE]

walkOff  == /\ wpc = "off" /\ wIn = <<>> /\ wOut = <<>>
stackOff == /\ spc = "off" /\ sIn = <<>> /\ sOut = <<>>
typeOff  == /\ tpc = "off" /\ tIn = <<>> /\ tOut = <<>>

\* The state before the first evaluation: the threads of cs are going to
\* issue n evaluations each.
InitEvalCalls(cs, n) ==
    /\ evCallers = cs
    /\ pc = [t \in Callers |-> "idle"]
    /\ hist = [t \in Callers |-> IdleHist]
    /\ callsLeft = [t \in Callers |-> IF t \in cs THEN n ELSE 0]
    /\ g_evalMutex = "free"
    /\ g_evalComplete = FALSE
    /\ cvWaiters = {}
    /\ npc = "idle"
    /\ nfor = NoEval
    /\ pending = {}
    /\ strayLeft = MaxStray
    /\ walkOff /\ stackOff /\ typeOff

InitEvalWith(cs) == InitEvalCalls(cs, MaxCalls)

\* EvalFunction / EvalObjectNoConstructor up to the call of WaitEvalResult.
StartEval(t, kind, failAt) ==
    /\ pc[t] = "idle"
    /\ callsLeft[t] > 0
    /\ callsLeft' = [callsLeft EXCEPT ![t] = @ - 1]
    /\ IF EvalSetup(kind, failAt) = "lock"
       THEN /\ pc' = [pc EXCEPT ![t] = "lock"]
            /\ hist' = [hist EXCEPT ![t] =
                          [NewHist(kind, failAt, callsLeft[t]) EXCEPT
                              !.lateStray = hist[t].lateStray]]
       ELSE /\ pc' = pc
            /\ hist' = [hist EXCEPT ![t] =
                          [NewHist(kind, failAt, callsLeft[t]) EXCEPT
                              !.status = "fail", !.lateStray = hist[t].lateStray]]
    /\ UNCHANGED <<walkVars, stackVars, typeVars, evCallers, g_evalMutex, g_evalComplete, cvWaiters, npc, nfor,
                   pending, strayLeft>>

\* std::unique_lock<std::mutex> lock(g_evalMutex);
WaitLock(t) ==
    /\ pc[t] = "lock"
    /\ g_evalMutex = "free"
    /\ g_evalMutex' = t
    /\ pc' = [pc EXCEPT ![t] = "clear"]
    /\ UNCHANGED <<walkVars, stackVars, typeVars, evCallers, hist, callsLeft, g_evalComplete, cvWaiters, npc, nfor,
                   pending, strayLeft>>

\* Mutant of ClearedFlag: the flag is left as the previous call left it.
ClearedFlag_NotCleared(flag) == flag

\* g_evalComplete = false;
ClearedFlag(flag) == FALSE

WaitClear(t) ==
    /\ pc[t] = "clear"
    /\ g_evalComplete' = ClearedFlag(g_evalComplete)
    /\ hist' = [hist EXCEPT ![t].cleared = TRUE, ![t].staleAtClear = g_evalComplete]
    /\ pc' = [pc EXCEPT ![t] = "continue"]
    /\ UNCHANGED <<walkVars, stackVars, typeVars, evCallers, callsLeft, g_evalMutex, cvWaiters, npc, nfor, pending,
                   strayLeft>>

\* IfFailRet(pProcess->Continue(0));
WaitContinue(t, ok) ==
    /\ pc[t] = "continue"
    /\ IF ok
       THEN /\ hist' = [hist EXCEPT ![t].resumeCalled = TRUE, ![t].resumed = TRUE]
            /\ pending' = pending \cup {<<t, hist[t].callNo>>}
            /\ pc' = [pc EXCEPT ![t] = "check"]
       ELSE /\ hist' = [hist EXCEPT ![t].resumeCalled = TRUE, ![t].status = "fail"]
            /\ pending' = pending
            /\ pc' = [pc EXCEPT ![t] = "unlock"]
    /\ UNCHANGED <<walkVars, stackVars, typeVars, evCallers, callsLeft, g_evalMutex, g_evalComplete, cvWaiters, npc,
                   nfor, strayLeft>>

\* The predicate test of g_evalCV.wait(lock, pred).
WaitCheck(t) ==
    /\ pc[t] = "check"
    /\ pc' = [pc EXCEPT ![t] = IF g_evalComplete THEN "getresult" ELSE "cvwait"]
    /\ UNCHANGED <<walkVars, stackVars, typeVars, evCallers, hist, callsLeft, g_evalMutex, g_evalComplete, cvWaiters,
                   npc, nfor, pending, strayLeft>>

\* Mutant of WaitBlock: the waiting thread keeps the mutex while it blocks.
WaitBlock_KeepsLock(t) ==
    /\ pc[t] = "cvwait"
    /\ cvWaiters' = cvWaiters \cup {t}
    /\ hist' = [hist EXCEPT ![t].waited = TRUE]
    /\ pc' = [pc EXCEPT ![t] = "blocked"]
    /\ UNCHANGED <<walkVars, stackVars, typeVars, evCallers, callsLeft, g_evalMutex, g_evalComplete, npc, nfor, pending, strayLeft>>

\* g_evalCV.wait(lock): the thread joins the waiters and releases the mutex in
\* one step, then blocks.
WaitBlock(t) ==
    /\ pc[t] = "cvwait"
    /\ cvWaiters' = cvWaiters \cup {t}
    /\ g_evalMutex' \in UnlockOutcomes(g_evalMutex, t)
    /\ hist' = [hist EXCEPT ![t].waited = TRUE]
    /\ pc' = [pc EXCEPT ![t] = "blocked"]
    /\ UNCHANGED <<walkVars, stackVars, typeVars, evCallers, callsLeft, g_evalComplete, npc, nfor, pending, strayLeft>>

\* A condition variable may wake a waiter that nobody notified.
SpuriousWake(t) ==
    /\ pc[t] = "blocked"
    /\ t \in cvWaiters
    /\ cvWaiters' = cvWaiters \ {t}
    /\ pc' = [pc EXCEPT ![t] = "reacquire"]
    /\ UNCHANGED <<walkVars, stackVars, typeVars, evCallers, hist, callsLeft, g_evalMutex, g_evalComplete, npc, nfor,
                   pending, strayLeft>>

\* A woken waiter takes the mutex again before wait tests the predicate.
WaitReacquire(t) ==
    /\ pc[t] = "reacquire"
    /\ g_evalMutex = "free"
    /\ g_evalMutex' = t
    /\ pc' = [pc EXCEPT ![t] = "check"]
    /\ UNCHANGED <<walkVars, stackVars, typeVars, evCallers, hist, callsLeft, g_evalComplete, cvWaiters, npc, nfor,
                   pending, strayLeft>>

\* return pEval->GetResult(ppEvalResult): the call returns what GetResult
\* returns.
WaitGetResult(t, ok) ==
    /\ pc[t] = "getresult"
    /\ hist' = [hist EXCEPT ![t].status = IF ok THEN "ok" ELSE "fail"]
    /\ pc' = [pc EXCEPT ![t] = "unlock"]
    /\ UNCHANGED <<walkVars, stackVars, typeVars, evCallers, callsLeft, g_evalMutex, g_evalComplete, cvWaiters, npc,
                   nfor, pending, strayLeft>>

\* ~unique_lock at the return of WaitEvalResult.
WaitUnlock(t) ==
    /\ pc[t] = "unlock"
    /\ g_evalMutex' \in UnlockOutcomes(g_evalMutex, t)
    /\ pc' = [pc EXCEPT ![t] = "idle"]
    /\ UNCHANGED <<walkVars, stackVars, typeVars, evCallers, hist, callsLeft, g_evalComplete, cvWaiters, npc, nfor,
                   pending, strayLeft>>

\* The event source calls NotifyEvalComplete for an outstanding evaluation.
NotifyCall ==
    /\ npc = "idle"
    /\ \E e \in pending :
          /\ nfor' = e
          /\ pending' = pending \ {e}
    /\ npc' = "lock"
    /\ UNCHANGED <<walkVars, stackVars, typeVars, evCallers, pc, hist, callsLeft, g_evalMutex, g_evalComplete,
                   cvWaiters, strayLeft>>

\* The event source calls NotifyEvalComplete while no evaluation is outstanding.
NotifyStray ==
    /\ npc = "idle"
    /\ strayLeft > 0
    /\ \A t \in evCallers : pc[t] = "idle"
    /\ pending = {}
    /\ strayLeft' = strayLeft - 1
    /\ nfor' = NoEval
    /\ npc' = "lock"
    /\ UNCHANGED <<walkVars, stackVars, typeVars, evCallers, pc, hist, callsLeft, g_evalMutex, g_evalComplete,
                   cvWaiters, pending>>

\* std::lock_guard<std::mutex> lock(g_evalMutex);
NotifyLock ==
    /\ npc = "lock"
    /\ g_evalMutex = "free"
    /\ g_evalMutex' = Notifier
    /\ npc' = "set"
    /\ UNCHANGED <<walkVars, stackVars, typeVars, evCallers, pc, hist, callsLeft, g_evalComplete, cvWaiters, nfor,
                   pending, strayLeft>>

\* g_evalComplete = true;
NotifySet ==
    /\ npc = "set"
    /\ g_evalComplete' = TRUE
    /\ hist' = [t \in Callers |->
                  IF hist[t].status = "running"
                  THEN [hist[t] EXCEPT
                          !.ownSet = @ \/ nfor = <<t, hist[t].callNo>>,
                          !.setSinceClear = @ \/ hist[t].cleared,
                          !.lateStray = @ \/ (hist[t].cleared /\ nfor = NoEval)]
                  ELSE hist[t]]
    /\ npc' = "unlock"
    /\ UNCHANGED <<walkVars, stackVars, typeVars, evCallers, pc, callsLeft, g_evalMutex, cvWaiters, nfor, pending,
                   strayLeft>>

\* g_evalMutex.unlock();
NotifyUnlock ==
    /\ npc = "unlock"
    /\ g_evalMutex' \in UnlockOutcomes(g_evalMutex, Notifier)
    /\ npc' = "notify"
    /\ UNCHANGED <<walkVars, stackVars, typeVars, evCallers, pc, hist, callsLeft, g_evalComplete, cvWaiters, nfor,
                   pending, strayLeft>>

\* g_evalCV.notify_one();
NotifyOne ==
    /\ npc = "notify"
    /\ IF cvWaiters = {}
       THEN UNCHANGED <<cvWaiters, pc>>
       ELSE \E t \in cvWaiters :
               /\ cvWaiters' = cvWaiters \ {t}
               /\ pc' = [pc EXCEPT ![t] = "reacquire"]
    /\ npc' = "guard"
    /\ UNCHANGED <<walkVars, stackVars, typeVars, evCallers, hist, callsLeft, g_evalMutex, g_evalComplete, nfor,
                   pending, strayLeft>>

\* ~lock_guard at the end of NotifyEvalComplete: a second unlock of the mutex.
NotifyGuardUnlock ==
    /\ npc = "guard"
    /\ g_evalMutex' \in UnlockOutcomes(g_evalMutex, Notifier)
    /\ npc' = "idle"
    /\ nfor' = NoEval
    /\ UNCHANGED <<walkVars, stackVars, typeVars, evCallers, pc, hist, callsLeft, g_evalComplete, cvWaiters, pending,
                   strayLeft>>

CallerStep(t) ==
    \/ \E kind \in EvalKinds :
          \E failAt \in {"none"} \cup Range(SetupSteps(kind)) : StartEval(t, kind, failAt)
    \/ WaitLock(t)
    \/ WaitClear(t)
    \/ \E ok \in BOOLEAN : WaitContinue(t, ok)
    \/ WaitCheck(t)
    \/ WaitBlock(t)
    \/ WaitReacquire(t)
    \/ \E ok \in BOOLEAN : WaitGetResult(t, ok)
    \/ WaitUnlock(t)

NotifierStep ==
    \/ NotifyCall
    \/ NotifyLock
    \/ NotifySet
    \/ NotifyUnlock
    \/ NotifyOne
    \/ NotifyGuardUnlock

NextEvalOnce ==
    \/ \E t \in evCallers, kind \in EvalKinds :
          \E failAt \in {"none"} \cup Range(SetupSteps(kind)) : StartEval(t, kind, failAt)
    \/ \E t \in evCallers : WaitLock(t)
    \/ \E t \in evCallers : WaitClear(t)
    \/ \E t \in evCallers, ok \in BOOLEAN : WaitContinue(t, ok)
    \/ \E t \in evCallers : WaitCheck(t)
    \/ \E t \in evCallers : WaitBlock(t)
    \/ \E t \in evCallers : WaitReacquire(t)
    \/ \E t \in evCallers, ok \in BOOLEAN : WaitGetResult(t, ok)
    \/ \E t \in evCallers : WaitUnlock(t)
    \/ \E t \in evCallers : SpuriousWake(t)
    \/ NotifyCall
    \/ NotifyLock
    \/ NotifySet
    \/ NotifyUnlock
    \/ NotifyOne
    \/ NotifyGuardUnlock

\* The event source may also notify while no evaluation is outstanding.
NextEval ==
    \/ NextEvalOnce
    \/ NotifyStray

\* Single-flight use: one debugger thread issues evaluations one after another.
InitEval == InitEvalWith({"c1"})
SpecEval == InitEval /\ [][NextEval]_vars

\* The event source notifies exactly once per outstanding evaluation and at
\* no other time. The caller thread and the event thread keep running, and a
\* thread that waits for the mutex gets it when it is released again and
\* again (strong fairness: no thread starves at the lock). Nothing promises a
\* spurious wake-up.
FairSpecEval ==
    /\ InitEval
    /\ [][NextEvalOnce]_vars
    /\ SF_vars(CallerStep("c1"))
    /\ SF_vars(NotifierStep)

\* Overlapping use: two debugger threads issue evaluations with nothing to
\* serialize them; the event source notifies once per evaluation.
InitEvalOverlap == InitEvalCalls(Callers, MaxOverlapCalls)
SpecEvalOverlap == InitEvalOverlap /\ [][NextEvalOnce]_vars

(***************************************************************************)
(* Strings. A name is a sequence of one-character strings.                 *)
(***************************************************************************)
SystemObject    == <<"S", "y", "s", "t", "e", "m", ".", "O", "b", "j", "e", "c", "t">>
SystemValueType == <<"S", "y", "s", "t", "e", "m", ".", "V", "a", "l", "u", "e", "T", "y", "p", "e">>
SystemEnum      == <<"S", "y", "s", "t", "e", "m", ".", "E", "n", "u", "m">>
SystemDecimal   == <<"S", "y", "s", "t", "e", "m", ".", "D", "e", "c", "i", "m", "a", "l">>
DecimalAlias    == <<"d", "e", "c", "i", "m", "a", "l">>
UnknownType     == <<"<", "u", "n", "k", "n", "o", "w", "n", ">">>
ThisName        == <<"t", "h", "i", "s">>
captureName     == <<"C", "S", "$", "<", ">">>
displayClass    == <<"<", ">", "c", "_", "_", "D", "i", "s", "p", "l", "a", "y", "C", "l", "a", "s", "s">>
hideClass       == <<"<", ">", "c">>

\* std::equal(prefix.begin(), prefix.end(), s.begin()): the characters of s
\* are compared with those of prefix one by one; a shorter s ends in its
\* terminator, which differs from every character of a prefix.
StdEqualPrefix(prefix, s) ==
    \A i \in 1..Len(prefix) : i <= Len(s) /\ s[i] = prefix[i]

\* s.rfind(c): the last position of c in s (from 1), 0 for npos.
RFind(s, c) ==
    LET hits == {i \in 1..Len(s) : s[i] = c}
    IN IF hits = {} THEN 0 ELSE CHOOSE i \in hits : \A j \in hits : j <= i

\* s.find_last_of(c), with the same convention.
FindLastOf(s, c) == RFind(s, c)

\* Mutant of StripBackingName: the closing '>' is kept in the name.
StripBackingName_KeepsBracket(name) ==
    LET e == RFind(name, ">")
    IN IF e = 0 THEN SubSeq(name, 2, Len(name)) ELSE SubSeq(name, 2, e)

\* endOffset = name.rfind('>'); name = name.substr(1, endOffset - 1);
\* with no '>' the count is npos - 1 and substr takes the rest of the name.
StripBackingName(name) ==
    LET e == RFind(name, ">")
    IN IF e = 0 THEN SubSeq(name, 2, Len(name)) ELSE SubSeq(name, 2, e - 1)

\* name[0] == '<' (name[0] of an empty name is the terminator).
StartsWithAngle(name) == Len(name) > 0 /\ name[1] = "<"

DigitChars == <<"0", "1", "2", "3", "4", "5", "6", "7", "8", "9">>

RECURSIVE ToDecimal(_)
\* operator<< of an unsigned number: its decimal digits.
ToDecimal(n) ==
    IF n < 10 THEN <<DigitChars[n + 1]>>
    ELSE ToDecimal(n \div 10) \o <<DigitChars[(n % 10) + 1]>>

\* ULONG32 arithmetic. A ULONG32 is held as the integer with the same 32 bits
\* in two's complement: a value below 2^31 as itself, a value u from 2^31 on
\* as u - 2^32 (4294967295, the lower bound -1 as GetBaseIndicies gives it,
\* is held as -1).

\* a + b of two ULONG32: the sum modulo 2^32.
AddU32(a, b) ==
    IF a >= 0 /\ b >= 0 /\ a > 2147483647 - b
    THEN (a - 2147483647 - 1) + (b - 2147483647 - 1)
    ELSE IF a < 0 /\ b < 0 /\ a < (-2147483647 - 1) - b
    THEN (a + 2147483647 + 1) + (b + 2147483647 + 1)
    ELSE a + b

\* The five decimal digits of n < 100000, with leading zeros.
FiveDigits(n) ==
    [i \in 1..5 |-> DigitChars[((n \div <<10000, 1000, 100, 10, 1>>[i]) % 10) + 1]]

\* operator<< of a ULONG32: the decimal digits of the unsigned value, which
\* is 4294967296 + u for a value held as u < 0.
ToDecimalU32(u) ==
    IF u >= 0 THEN ToDecimal(u)
    ELSE LET t == 67296 + u
         IN ToDecimal(42949 + (t \div 100000)) \o FiveDigits(t % 100000)

(***************************************************************************)
(* Type names (typeprinter.cpp)                                            *)
(***************************************************************************)

RECURSIVE NameForTypeDef(_)
\* TypePrinter::NameForTypeDef: the name of the type definition, prefixed by
\* the names of its enclosing types, joined with "+".
NameForTypeDef(def) ==
    IF ~def.propsOk THEN [ok |-> FALSE, name |-> <<>>]
    ELSE IF ~def.nested THEN [ok |-> TRUE, name |-> def.name]
    ELSE IF ~def.nestedPropsOk THEN [ok |-> FALSE, name |-> def.name]
    ELSE LET outer == NameForTypeDef(def.enclosing)
         IN IF ~outer.ok THEN [ok |-> FALSE, name |-> def.name]
            ELSE [ok |-> TRUE, name |-> outer.name \o <<"+">> \o def.name]

\* The alias table of GetTypeOfValue for the primitive element kinds.
PrimitiveAlias(elem) ==
    CASE elem = "VOID"    -> <<"v", "o", "i", "d">>
      [] elem = "BOOLEAN" -> <<"b", "o", "o", "l">>
      [] elem = "CHAR"    -> <<"c", "h", "a", "r">>
      [] elem = "I1"      -> <<"s", "b", "y", "t", "e">>
      [] elem = "U1"      -> <<"b", "y", "t", "e">>
      [] elem = "I2"      -> <<"s", "h", "o", "r", "t">>
      [] elem = "U2"      -> <<"u", "s", "h", "o", "r", "t">>
      [] elem = "I4"      -> <<"i", "n", "t">>
      [] elem = "U4"      -> <<"u", "i", "n", "t">>
      [] elem = "I8"      -> <<"l", "o", "n", "g">>
      [] elem = "U8"      -> <<"u", "l", "o", "n", "g">>
      [] elem = "R4"      -> <<"f", "l", "o", "a", "t">>
      [] elem = "R8"      -> <<"d", "o", "u", "b", "l", "e">>
      [] elem = "OBJECT"  -> <<"o", "b", "j", "e", "c", "t">>
      [] elem = "STRING"  -> <<"s", "t", "r", "i", "n", "g">>
      [] elem = "I"       -> <<"I", "n", "t", "P", "t", "r">>
      [] elem = "U"       -> <<"U", "I", "n", "t", "P", "t", "r">>
      [] elem = "FNPTR"   -> <<"*", "(", ".", ".", ".", ")">>
      [] elem = "TYPEDBYREF" -> <<"t", "y", "p", "e", "d", "b", "y", "r", "e", "f">>
      [] OTHER            -> <<"(", "U", "n", "h", "a", "n", "d", "l", "e", "d", " ", "C", "o", "r", "E", "l", "e", "m", "e", "n", "t", "T", "y", "p", "e", ":", " ", "0", "x">> \o <<elem>> \o <<")">>

PrimitiveKinds ==
    {"VOID", "BOOLEAN", "CHAR", "I1", "U1", "I2", "U2", "I4", "U4", "I8", "U8",
     "R4", "R8", "OBJECT", "STRING", "I", "U", "FNPTR", "TYPEDBYREF"}
ClassKinds == {"CLASS", "VALUETYPE"}
AdornKinds == {"SZARRAY", "ARRAY", "BYREF", "PTR"}

RECURSIVE Commas(_)
\* The loop for (ULONG32 i = 0; i < rank - 1; i++) ss << ",", for the ULONG32
\* n = rank - 1 (held in two's complement): it appends n commas. For n held
\* below 0 that is the unsigned value 4294967296 + n of them (with rank 0
\* the bound wraps to 4294967295: a string of 4 GiB, when the memory for it
\* is there); the one element ",{N}" stands for a run of N commas of that
\* size, N in decimal digits.
Commas(n) ==
    IF n < 0
    THEN LET d == ToDecimalU32(n)
             run[i \in 0..Len(d)] == IF i = 0 THEN ",{" ELSE run[i - 1] \o d[i]
         IN <<run[Len(d)] \o "}">>
    ELSE IF n = 0 THEN <<>>
    ELSE <<",">> \o Commas(n - 1)

RECURSIVE GetTypeOfValue3(_)
RECURSIVE AddGenericArgs(_, _)
RECURSIVE GenericArgList(_, _)

\* The names of the generic arguments from position i on, each preceded by
\* "<" (the first) or ",".
GenericArgList(args, i) ==
    IF i > Len(args) THEN <<>>
    ELSE LET r == GetTypeOfValue3(args[i])
             name == IF r.ok THEN r.elementType \o r.arrayType ELSE <<>>
         IN (IF i = 1 THEN <<"<">> ELSE <<",">>) \o name \o GenericArgList(args, i + 1)

\* TypePrinter::AddGenericArgs: appends <T1,T2,...> when the type has
\* type parameters and their enumeration succeeds.
AddGenericArgs(ty, ss) ==
    IF ty.enumArgsOk /\ Len(ty.args) > 0
    THEN ss \o GenericArgList(ty.args, 1) \o <<">">>
    ELSE ss

\* TypePrinter::GetTypeOfValue(ICorDebugType*, elementType, arrayType).
\* The two strings are what the call leaves in its output parameters, which
\* the caller passes in empty.
GetTypeOfValue3(ty) ==
    IF ~ty.getTypeOk
    THEN [ok |-> FALSE, elementType |-> <<>>, arrayType |-> <<>>]
    ELSE IF ty.elem \in ClassKinds
    THEN LET dflt == IF ty.elem = "VALUETYPE" THEN <<"s", "t", "r", "u", "c", "t">> ELSE <<"c", "l", "a", "s", "s">>
         IN IF ty.classOk /\ ~ty.moduleOk
            THEN [ok |-> FALSE, elementType |-> dflt, arrayType |-> <<>>]
            ELSE LET nm == IF ty.classOk THEN NameForTypeDef(ty.def)
                           ELSE [ok |-> FALSE, name |-> <<>>]
                     ss == IF nm.ok
                           THEN (IF nm.name = SystemDecimal THEN DecimalAlias ELSE nm.name)
                           ELSE <<>>
                 IN [ok |-> TRUE, elementType |-> AddGenericArgs(ty, ss),
                     arrayType |-> <<>>]
    ELSE IF ty.elem \in AdornKinds
    THEN LET sub == IF ty.firstOk THEN GetTypeOfValue3(ty.first)
                    ELSE [ok |-> TRUE, elementType |-> UnknownType, arrayType |-> <<>>]
         IN CASE ty.elem = "SZARRAY" ->
                   [ok |-> TRUE, elementType |-> sub.elementType,
                    arrayType |-> <<"[", "]">> \o sub.arrayType]
              [] ty.elem = "ARRAY" ->
                   \* ULONG32 rank = 0; pType->GetRank(&rank); (unchecked)
                   LET rank == IF ty.rankOk THEN ty.rank ELSE 0
                   IN [ok |-> TRUE, elementType |-> sub.elementType,
                       arrayType |-> <<"[">> \o Commas(rank - 1) \o <<"]">> \o sub.arrayType]
              [] ty.elem = "BYREF" ->
                   [ok |-> TRUE, elementType |-> sub.elementType,
                    arrayType |-> sub.arrayType \o <<"&">>]
              [] ty.elem = "PTR" ->
                   [ok |-> TRUE, elementType |-> sub.elementType,
                    arrayType |-> sub.arrayType \o <<"*">>]
    ELSE [ok |-> TRUE, elementType |-> PrimitiveAlias(ty.elem), arrayType |-> <<>>]

\* TypePrinter::GetTypeOfValue(ICorDebugType*, output): output is assigned
\* only when the three-argument form succeeds.
GetTypeOfType(ty) ==
    LET r == GetTypeOfValue3(ty)
    IN IF r.ok THEN [ok |-> TRUE, output |-> r.elementType \o r.arrayType]
       ELSE [ok |-> FALSE, output |-> <<>>]

\* TypePrinter::GetTypeOfValue(ICorDebugValue*, output).
GetTypeOfValue(v) ==
    IF ~v.getTypeOk THEN [ok |-> FALSE, output |-> <<>>]
    ELSE IF v.value2Ok /\ v.exactTypeOk THEN GetTypeOfType(v.ty)
    ELSE [ok |-> TRUE, output |-> UnknownType]

(***************************************************************************)
(* Member walker (valuewalk.cpp:133-362)                                   *)
(*                                                                         *)
(* A value is a record: deref (what unwrapping it gives), getTypeOk,       *)
(* value2Ok (the query for ICorDebugValue2), exactTypeOk (GetExactType),   *)
(* objAccess (the accessor calls on it), ty (its exact type),              *)
(* isArray and arr (the array surface), and chain, the inheritance chain   *)
(* of its exact type: chain[1] is the type itself, chain[i+1] the base     *)
(* type that GetBase gives for chain[i]. A level of the chain holds the    *)
(* type descriptor ty, baseOk, and the fields and properties the metadata  *)
(* declares on it, each field with the value its fetch gives (or NoValue). *)
(***************************************************************************)

S_OK   == "S_OK"
E_FAIL == "E_FAIL"

\* DereferenceAndUnboxValue (declared at valuewalk.cpp:18, defined outside
\* these sources): it either fails or yields the unwrapped value and the
\* null test; a null reference is reported with or without a value handle.
DereferenceAndUnboxValue(v) ==
    CASE v.deref = "fail"    -> [ok |-> FALSE, isNull |-> FALSE, hasPtr |-> FALSE]
      [] v.deref = "null"    -> [ok |-> TRUE,  isNull |-> TRUE,  hasPtr |-> FALSE]
      [] v.deref = "nullref" -> [ok |-> TRUE,  isNull |-> TRUE,  hasPtr |-> TRUE]
      [] OTHER               -> [ok |-> TRUE,  isNull |-> FALSE, hasPtr |-> TRUE]

RECURSIVE IncFrom(_, _, _)
IncFrom(ind, dims, i) ==
    IF i < 1 THEN ind
    ELSE IF ind[i] + 1 < dims[i] THEN [ind EXCEPT ![i] = ind[i] + 1]
    ELSE IncFrom([ind EXCEPT ![i] = 0], dims, i - 1)

\* IncIndicies: one odometer step from the last dimension leftwards.
IncIndicies(ind, dims) == IncFrom(ind, dims, Len(ind))

RECURSIVE JoinIndicies(_, _, _)
JoinIndicies(ind, base, i) ==
    IF i > Len(ind) THEN <<>>
    ELSE (IF i = 1 THEN <<>> ELSE <<",", " ">>)
         \o ToDecimalU32(AddU32(base[i], ind[i])) \o JoinIndicies(ind, base, i + 1)

\* IndiciesToStr: the ULONG32 sum base[i] + ind[i] in decimal, separated by
\* ", ".
IndiciesToStr(ind, base) ==
    IF Len(ind) < 1 \/ Len(base) # Len(ind) THEN <<>>
    ELSE JoinIndicies(ind, base, 1)

Zeros(n) == [i \in 1..n |-> 0]

\* No value: a field whose fetch gave nothing, and the value argument of a
\* visit that carries none.
NoValue == [novalue |-> TRUE]

\* A value of a primitive type.
Leaf ==
    [deref |-> "value", getTypeOk |-> TRUE, value2Ok |-> TRUE, exactTypeOk |-> TRUE,
     objAccess |-> FALSE, ty |-> [elem |-> "I4", getTypeOk |-> TRUE],
     isArray |-> FALSE, chain |-> <<>>]

Visit(name, isStatic, value, getter, kind, level, idx) ==
    [name |-> name, isStatic |-> isStatic, value |-> value, getter |-> getter,
     kind |-> kind, level |-> level, idx |-> idx]

RECURSIVE ArrayElements(_, _, _, _)
\* The element loop of the array branch, from position k on.
ArrayElements(a, base, ind, k) ==
    IF k >= a.count THEN <<>>
    ELSE <<Visit(<<"[">> \o IndiciesToStr(ind, base) \o <<"]">>, FALSE,
                 a.elems, "nil", "elem", 0, k)>>
         \o ArrayElements(a, base, IncIndicies(ind, a.dims), k + 1)

\* The array branch of WalkMembers.
WalkArray(a) ==
    IF ~a.rankOk \/ ~a.countOk \/ ~a.dimsOk
    THEN [status |-> E_FAIL, visits |-> <<>>]
    ELSE IF a.hasBaseOk /\ a.hasBase /\ ~a.baseOk
    THEN [status |-> E_FAIL, visits |-> <<>>]
    ELSE LET base == IF a.hasBaseOk /\ a.hasBase THEN a.base ELSE Zeros(a.rank)
         IN [status |-> S_OK,
             visits |-> ArrayElements(a, base, Zeros(a.rank), 0)]

\* The value the field loop fetches for a field: a static field through the
\* frame, an instance field through the object accessor of the value.
FetchField(f, v, hasFrame) ==
    IF f.isStatic
    THEN IF hasFrame THEN f.val ELSE NoValue
    ELSE IF v.objAccess THEN f.val ELSE NoValue

\* Mutant of FieldStep: a backing field without a value is shown as
\* unavailable, like any other field.
FieldStep_ShowsUnfetchedBacking(f, v, hasFrame, isNull, level, idx, st) ==
    IF ~f.propsOk \/ f.isLiteral THEN st
    ELSE LET val == FetchField(f, v, hasFrame)
             backing == StartsWithAngle(f.name)
             name == IF backing THEN StripBackingName(f.name) ELSE f.name
         IN IF val # NoValue
            THEN [backed |-> IF backing THEN st.backed \cup {name} ELSE st.backed,
                  visits |-> IF isNull /\ ~f.isStatic THEN st.visits
                             ELSE Append(st.visits,
                                    Visit(name, f.isStatic, val, "nil", "field", level, idx))]
            ELSE IF isNull /\ ~f.isStatic THEN st
            ELSE [st EXCEPT !.visits =
                    Append(@, Visit(name, f.isStatic, NoValue, "nil", "field", level, idx))]

\* Mutant of FieldStep: instance fields of a null receiver are visited.
FieldStep_IgnoresNull(f, v, hasFrame, isNull, level, idx, st) ==
    IF ~f.propsOk \/ f.isLiteral THEN st
    ELSE LET val == FetchField(f, v, hasFrame)
             backing == StartsWithAngle(f.name)
         IN IF val # NoValue
            THEN LET name == IF backing THEN StripBackingName(f.name) ELSE f.name
                 IN [backed |-> IF backing THEN st.backed \cup {name} ELSE st.backed,
                     visits |-> Append(st.visits,
                                    Visit(name, f.isStatic, val, "nil", "field", level, idx))]
            ELSE IF backing THEN st
            ELSE [st EXCEPT !.visits =
                    Append(@, Visit(f.name, f.isStatic, NoValue, "nil", "field", level, idx))]

\* One pass of the field loop: st holds the visits made so far on this
\* level and backedProperies.
FieldStep(f, v, hasFrame, isNull, level, idx, st) ==
    IF ~f.propsOk \/ f.isLiteral THEN st
    ELSE LET val == FetchField(f, v, hasFrame)
             backing == StartsWithAngle(f.name)
         IN IF val # NoValue
            THEN LET name == IF backing THEN StripBackingName(f.name) ELSE f.name
                 IN [backed |-> IF backing THEN st.backed \cup {name} ELSE st.backed,
                     visits |-> IF isNull /\ ~f.isStatic THEN st.visits
                                ELSE Append(st.visits,
                                       Visit(name, f.isStatic, val, "nil", "field", level, idx))]
            ELSE IF backing THEN st
            ELSE IF isNull /\ ~f.isStatic THEN st
            ELSE [st EXCEPT !.visits =
                    Append(@, Visit(f.name, f.isStatic, NoValue, "nil", "field", level, idx))]

RECURSIVE FieldLoop(_, _, _, _, _, _, _)
FieldLoop(fields, v, hasFrame, isNull, level, idx, st) ==
    IF idx > Len(fields) THEN st
    ELSE FieldLoop(fields, v, hasFrame, isNull, level, idx + 1,
                   FieldStep(fields[idx], v, hasFrame, isNull, level, idx, st))

\* Mutant of PropertyStep: a property is visited although its backing field
\* was.
PropertyStep_IgnoresBacked(p, isNull, level, idx, st) ==
    IF ~p.propsOk \/ ~p.getterOk THEN st
    ELSE IF isNull /\ ~p.isStatic THEN st
    ELSE [st EXCEPT !.visits =
            Append(@, Visit(p.name, p.isStatic, NoValue, "mdGetter", "prop", level, idx))]

\* One pass of the property loop.
PropertyStep(p, isNull, level, idx, st) ==
    IF ~p.propsOk \/ ~p.getterOk THEN st
    ELSE IF p.name \in st.backed THEN st
    ELSE IF isNull /\ ~p.isStatic THEN st
    ELSE [st EXCEPT !.visits =
            Append(@, Visit(p.name, p.isStatic, NoValue, "mdGetter", "prop", level, idx))]

RECURSIVE PropertyLoop(_, _, _, _, _)
PropertyLoop(props, isNull, level, idx, st) ==
    IF idx > Len(props) THEN st
    ELSE PropertyLoop(props, isNull, level, idx + 1,
                      PropertyStep(props[idx], isNull, level, idx, st))

\* while (SUCCEEDED(Enum...(...)) && n != 0): the items the enumeration
\* hands out before it fails at its failAt-th call (0: it never fails).
Enumerated(items, failAt) ==
    IF failAt > 0 /\ failAt <= Len(items) THEN SubSeq(items, 1, failAt - 1) ELSE items

\* The fields, then the properties, that one level of the chain produces.
LevelVisits(v, hasFrame, isNull, level) ==
    LET L == v.chain[level]
        afterFields == FieldLoop(Enumerated(L.fields, L.fieldEnumFailAt), v, hasFrame,
                                 isNull, level, 1, [backed |-> {}, visits |-> <<>>])
    IN PropertyLoop(Enumerated(L.props, L.propEnumFailAt), isNull, level, 1,
                    afterFields).visits

\* Mutant of BaseDecision: no base type ends the walk.
BaseDecision_AlwaysRecurse(v, level) ==
    IF v.chain[level].baseOk /\ level < Len(v.chain) THEN "recurse" ELSE "stop"

\* What the walk does after the properties of a level: "stop", or "recurse"
\* into the base type.
BaseDecision(v, level) ==
    IF v.chain[level].baseOk /\ level < Len(v.chain)
    THEN LET r == GetTypeOfType(v.chain[level + 1].ty)
         IN IF ~r.ok THEN "stop"
            ELSE IF r.output = SystemEnum THEN "stop"
            ELSE IF r.output # SystemObject /\ r.output # SystemValueType
            THEN "recurse"
            ELSE "stop"
    ELSE "stop"

RECURSIVE WalkMembersAt(_, _, _)
\* static WalkMembers(pInputValue, pILFrame, pTypeCast, cb) with a visitor
\* that returns S_OK: level 1 stands for pTypeCast == NULL, level i + 1 for
\* the base type of level i. The result is the returned status and the
\* visitor calls in order.
WalkMembersAt(v, hasFrame, level) ==
    LET d == DereferenceAndUnboxValue(v)
    IN IF ~d.ok THEN [status |-> E_FAIL, visits |-> <<>>]
       ELSE IF d.isNull /\ ~d.hasPtr THEN [status |-> S_OK, visits |-> <<>>]
       ELSE IF v.isArray THEN WalkArray(v.arr)
       \* IfFailRet(pValue->QueryInterface(IID_ICorDebugValue2)) at every
       \* level; IfFailRet(pValue2->GetExactType) only without pTypeCast.
       ELSE IF ~v.value2Ok THEN [status |-> E_FAIL, visits |-> <<>>]
       ELSE IF level = 1 /\ ~v.exactTypeOk THEN [status |-> E_FAIL, visits |-> <<>>]
       ELSE LET L == v.chain[level]
            IN IF ~L.ty.getTypeOk THEN [status |-> E_FAIL, visits |-> <<>>]
               ELSE IF L.ty.elem = "STRING" THEN [status |-> S_OK, visits |-> <<>>]
               ELSE IF ~L.ty.classOk \/ ~L.ty.moduleOk
               THEN [status |-> E_FAIL, visits |-> <<>>]
               ELSE IF GetTypeOfType(L.ty).output = DecimalAlias
               THEN [status |-> S_OK, visits |-> <<>>]
               ELSE LET own == LevelVisits(v, hasFrame, d.isNull, level)
                    IN IF BaseDecision(v, level) = "recurse"
                       THEN LET up == WalkMembersAt(v, hasFrame, level + 1)
                            IN [status |-> up.status, visits |-> own \o up.visits]
                       ELSE [status |-> S_OK, visits |-> own]

\* IfFailRet(cb(...)): a visitor that fails at its k-th call (k > 0) ends the
\* walk there with its failure.
WithVisitor(r, k) ==
    IF k > 0 /\ Len(r.visits) >= k
    THEN [status |-> E_FAIL, visits |-> SubSeq(r.visits, 1, k)]
    ELSE r

\* WalkMembers(pValue, pILFrame, cb).
WalkMembers(v, hasFrame, cbFailAt) ==
    WithVisitor(WalkMembersAt(v, hasFrame, 1), cbFailAt)

(***************************************************************************)
(* The values and types the member walker is run on.                       *)
(***************************************************************************)
SeqsUpTo(S, n) == UNION {[1..k -> S] : k \in 0..n}

TypeDef(name) ==
    [name |-> name, nested |-> FALSE, nestedPropsOk |-> TRUE, enclosing |-> <<>>,
     propsOk |-> TRUE]

NestedDef(name, outer) ==
    [name |-> name, nested |-> TRUE, nestedPropsOk |-> TRUE, enclosing |-> outer,
     propsOk |-> TRUE]

ClassType(def) ==
    [elem |-> "CLASS", getTypeOk |-> TRUE, classOk |-> TRUE, moduleOk |-> TRUE,
     def |-> def, args |-> <<>>, enumArgsOk |-> TRUE]

\* The user types of an inheritance chain: N.T1, N.T2, ...
UserType(i) == ClassType(TypeDef(<<"N", ".", "T">> \o ToDecimal(i)))

Field(name, isStatic, isLiteral, val) ==
    [name |-> name, isStatic |-> isStatic, isLiteral |-> isLiteral,
     propsOk |-> TRUE, val |-> val]

Property(name, isStatic, getterOk) ==
    [name |-> name, isStatic |-> isStatic, propsOk |-> TRUE, getterOk |-> getterOk]

BackingP == <<"<", "P", ">", "k", "_", "_", "B", "a", "c", "k", "i", "n", "g", "F", "i", "e", "l", "d">>
NameP    == <<"P">>

\* The fields a type may declare: plain instance fields with and without a
\* fetchable value, a static field, a compile-time constant, and the backing
\* field of the auto-property P, of an instance P and of a static P, each
\* with and without a fetchable value.
FieldVariants ==
    { Field(<<"x">>, FALSE, FALSE, Leaf),
      Field(<<"y">>, FALSE, FALSE, NoValue),
      Field(<<"s">>, TRUE, FALSE, Leaf),
      Field(<<"c">>, TRUE, TRUE, NoValue),
      Field(BackingP, FALSE, FALSE, Leaf),
      Field(BackingP, FALSE, FALSE, NoValue),
      Field(BackingP, TRUE, FALSE, Leaf),
      Field(BackingP, TRUE, FALSE, NoValue) }

\* The properties a type may declare, in declaration order: the
\* auto-property P as an instance property and as a static one, with a
\* getter that can be read and with one that cannot, a static property Q
\* and a property R whose getter cannot be read.
PropertyLists ==
    { <<>>,
      <<Property(NameP, FALSE, TRUE)>>,
      <<Property(NameP, TRUE, TRUE)>>,
      <<Property(NameP, FALSE, FALSE)>>,
      <<Property(<<"Q">>, TRUE, TRUE)>>,
      <<Property(<<"R">>, FALSE, FALSE), Property(NameP, FALSE, TRUE)>>,
      <<Property(<<"Q">>, TRUE, TRUE), Property(NameP, FALSE, TRUE)>>,
      <<Property(<<"Q">>, TRUE, TRUE), Property(NameP, TRUE, TRUE)>> }

MaxFields == 2
MaxChain  == 2
MaxRank   == 2
MaxDim    == 3
MaxBase   == 2

Level(ty, fields, props) ==
    [ty |-> ty, baseOk |-> TRUE, fields |-> fields, props |-> props,
     fieldEnumFailAt |-> 0, propEnumFailAt |-> 0]

\* The levels a single type is tried with, and the smaller set that the
\* levels of a longer chain are drawn from.
Levels(i) ==
    { Level(UserType(i), fs, ps) :
        fs \in SeqsUpTo(FieldVariants, MaxFields),
        ps \in PropertyLists }

SmallLevels(i) ==
    { Level(UserType(i), fs, ps) :
        fs \in { <<>>,
                 <<Field(<<"s">>, TRUE, FALSE, Leaf), Field(<<"y">>, FALSE, FALSE, NoValue)>>,
                 <<Field(BackingP, FALSE, FALSE, Leaf)>>,
                 <<Field(BackingP, TRUE, FALSE, Leaf)>> },
        ps \in { <<>>,
                 <<Property(<<"Q">>, TRUE, TRUE), Property(NameP, FALSE, TRUE)>>,
                 <<Property(NameP, TRUE, TRUE)>> } }

\* The runtime's root types, as levels: each with a field of its own, which
\* a walk that went into them would visit.
RootLevel(name) ==
    [ty |-> ClassType(TypeDef(name)), baseOk |-> FALSE,
     fields |-> <<Field(<<"r">>, FALSE, FALSE, Leaf)>>, props |-> <<>>,
     fieldEnumFailAt |-> 0, propEnumFailAt |-> 0]

RootNames == {SystemObject, SystemValueType, SystemEnum}

RECURSIVE UserChains(_, _)
\* The chains of n user types, numbered from i.
UserChains(i, n) ==
    IF n = 0 THEN {<<>>}
    ELSE { <<L>> \o rest : L \in SmallLevels(i), rest \in UserChains(i + 1, n - 1) }

NoArray ==
    [rankOk |-> TRUE, countOk |-> TRUE, dimsOk |-> TRUE, hasBaseOk |-> TRUE,
     hasBase |-> FALSE, baseOk |-> TRUE, rank |-> 1, count |-> 0,
     dims |-> <<0>>, base |-> <<0>>, elems |-> NoValue]

ObjectValue(deref, objAccess, chain) ==
    [deref |-> deref, getTypeOk |-> TRUE, value2Ok |-> TRUE, exactTypeOk |-> TRUE,
     objAccess |-> objAccess, ty |-> chain[1].ty, isArray |-> FALSE,
     arr |-> NoArray, chain |-> chain]

RECURSIVE Product(_, _)
Product(dims, i) == IF i > Len(dims) THEN 1 ELSE dims[i] * Product(dims, i + 1)

ArrayType(rank) ==
    [elem |-> IF rank = 1 THEN "SZARRAY" ELSE "ARRAY", getTypeOk |-> TRUE,
     firstOk |-> TRUE, rankOk |-> TRUE, rank |-> rank,
     first |-> [elem |-> "I4", getTypeOk |-> TRUE]]

\* An array value: GetCount reports the product of the dimensions.
ArrayValue(dims, hasBase, base) ==
    [deref |-> "value", getTypeOk |-> TRUE, value2Ok |-> TRUE, exactTypeOk |-> TRUE,
     objAccess |-> FALSE, ty |-> ArrayType(Len(dims)), isArray |-> TRUE,
     arr |-> [rankOk |-> TRUE, countOk |-> TRUE, dimsOk |-> TRUE,
              hasBaseOk |-> TRUE, hasBase |-> hasBase, baseOk |-> TRUE,
              rank |-> Len(dims), count |-> Product(dims, 1), dims |-> dims,
              base |-> base, elems |-> Leaf],
     chain |-> <<>>]

WalkInput(v, hasFrame, cbFailAt) ==
    [v |-> v, hasFrame |-> hasFrame, cbFailAt |-> cbFailAt]

\* One user type below a root type, with every way of unwrapping the value.
SingleTypeInputs ==
    { WalkInput(ObjectValue(c[2], c[3], <<L, RootLevel(c[1])>>), c[4], 0) :
        L \in Levels(1),
        c \in { <<SystemObject, "value", TRUE, TRUE>>,
                <<SystemObject, "value", FALSE, TRUE>>,
                <<SystemObject, "value", TRUE, FALSE>>,
                <<SystemObject, "nullref", TRUE, TRUE>>,
                <<SystemObject, "nullref", TRUE, FALSE>>,
                <<SystemValueType, "value", TRUE, TRUE>>,
                <<SystemEnum, "value", TRUE, TRUE>>,
                <<SystemEnum, "nullref", TRUE, TRUE>> } }

\* Chains of user types below a root type.
ChainInputs ==
    { WalkInput(ObjectValue(deref, TRUE, users \o <<RootLevel(root)>>), TRUE, cbFailAt) :
        users \in UNION {UserChains(1, n) : n \in 1..MaxChain}, root \in RootNames,
        deref \in {"value", "nullref", "null", "fail"}, cbFailAt \in {0, 1} }

\* The lower bounds an array of this rank is tried with: the same bound in
\* every dimension, from -1 (the ULONG32 4294967295) on, and the bounds
\* 1, 2, ...
BaseVectors(rank) ==
    { [i \in 1..rank |-> b] : b \in (-1)..MaxBase } \cup { [i \in 1..rank |-> i] }

\* Arrays of every rank, with and without lower bounds.
ArrayInputs ==
    UNION { { WalkInput(ArrayValue(dims, hasBase, base), TRUE, 0) :
                dims \in [1..r -> 0..MaxDim], base \in BaseVectors(r),
                hasBase \in BOOLEAN } : r \in 1..MaxRank }

\* A level with two fields and two properties, on which one metadata call
\* fails: the properties of a field, of a property or of a getter, an
\* enumeration, or the base type query.
FailingLevels ==
    LET fs == <<Field(<<"x">>, FALSE, FALSE, Leaf), Field(<<"s">>, TRUE, FALSE, Leaf)>>
        ps == <<Property(<<"Q">>, TRUE, TRUE), Property(NameP, FALSE, TRUE)>>
        L == Level(UserType(1), fs, ps)
    IN { [L EXCEPT !.fields[1].propsOk = FALSE],
         [L EXCEPT !.props[1].propsOk = FALSE],
         [L EXCEPT !.props[1].getterOk = FALSE],
         [L EXCEPT !.baseOk = FALSE],
         [L EXCEPT !.fields[1].val = NoValue] }
       \cup { [L EXCEPT !.fieldEnumFailAt = k] : k \in 1..2 }
       \cup { [L EXCEPT !.propEnumFailAt = k] : k \in 1..2 }

\* Chains of two user types on whose first level a metadata call fails.
MetadataFailureInputs ==
    { WalkInput(ObjectValue("value", TRUE, <<L, L2, RootLevel(SystemObject)>>), TRUE, 0) :
        L \in FailingLevels,
        L2 \in { Level(UserType(2), <<Field(<<"y">>, FALSE, FALSE, NoValue)>>,
                       <<Property(<<"Q">>, TRUE, TRUE)>>) } }

\* Chains of two user types on a value that fails the query for
\* ICorDebugValue2 or the query of its exact type.
ValueFailureInputs ==
    LET v == ObjectValue("value", TRUE,
                         <<Level(UserType(1), <<Field(<<"x">>, FALSE, FALSE, Leaf)>>, <<>>),
                           Level(UserType(2), <<Field(<<"y">>, FALSE, FALSE, Leaf)>>, <<>>),
                           RootLevel(SystemObject)>>)
    IN { WalkInput([v EXCEPT !.value2Ok = FALSE], TRUE, 0),
         WalkInput([v EXCEPT !.exactTypeOk = FALSE], TRUE, 0) }

WalkInputs ==
    SingleTypeInputs \cup ChainInputs \cup ArrayInputs \cup MetadataFailureInputs
    \cup ValueFailureInputs

evalOffInit ==
    /\ evCallers = {}
    /\ pc = [t \in Callers |-> "idle"]
    /\ hist = [t \in Callers |-> IdleHist]
    /\ callsLeft = [t \in Callers |-> 0]
    /\ g_evalMutex = "free"
    /\ g_evalComplete = FALSE
    /\ cvWaiters = {}
    /\ npc = "idle"
    /\ nfor = NoEval
    /\ pending = {}
    /\ strayLeft = 0

InitWalk ==
    /\ wpc = "ready"
    /\ wIn \in WalkInputs
    /\ wOut = <<>>
    /\ evalOffInit
    /\ stackOff /\ typeOff

\* A caller runs WalkMembers on the value with its visitor.
DoWalkMembers ==
    /\ wpc = "ready"
    /\ wOut' = WalkMembers(wIn.v, wIn.hasFrame, wIn.cbFailAt)
    /\ wpc' = "done"
    /\ UNCHANGED <<wIn, evalVars, stackVars, typeVars>>

NextWalk == DoWalkMembers

SpecWalk == InitWalk /\ [][NextWalk]_vars

(***************************************************************************)
(* Frame walker (valuewalk.cpp:364-547)                                    *)
(*                                                                         *)
(* A frame is a record: setupOk (the interface and metadata queries at the *)
(* head of WalkStackVars), argsOk, methodPropsOk, isStatic, paramNames     *)
(* (the parameter names of the method, by metadata sequence number), args  *)
(* (what each Next of the argument enumerator gives), ipOk, localsOk,      *)
(* offset (the current IL offset) and locals (what the symbol reader gives *)
(* for each slot). The visitor calls are recorded with the variable they   *)
(* came from.                                                              *)
(***************************************************************************)
S_FALSE == "S_FALSE"

Emit(name, value, origin) == [name |-> name, value |-> value, origin |-> origin]

RECURSIVE LocalVarMembers_EmitsNested(_, _, _)
\* Mutant of LocalVarMembers: members named with the marker are handed to
\* the visitor like the others.
LocalVarMembers_EmitsNested(visits, k, origin) ==
    IF k > Len(visits) THEN <<>>
    ELSE <<Emit(visits[k].name, visits[k].value, origin)>>
         \o LocalVarMembers_EmitsNested(visits, k + 1, origin)

RECURSIVE LocalVarMembers(_, _, _)
\* The visitor HandleSpecialLocalVar walks the container with, applied to
\* the member visits from k on: a member whose name starts with captureName
\* is passed over, every other member goes to the frame visitor.
LocalVarMembers(visits, k, origin) ==
    IF k > Len(visits) THEN <<>>
    ELSE (IF StdEqualPrefix(captureName, visits[k].name) THEN <<>>
          ELSE <<Emit(visits[k].name, visits[k].value, origin)>>)
         \o LocalVarMembers(visits, k + 1, origin)

\* The result of walking a container with the visitor of
\* HandleSpecialLocalVar: r is what the member walk gave.
FlattenLocal(r, origin) ==
    [status |-> r.status, emits |-> LocalVarMembers(r.visits, 1, origin)]

\* HandleSpecialLocalVar: S_FALSE when the name does not start with
\* captureName, else the status of the member walk and the visitor calls
\* made during it.
HandleSpecialLocalVar(localName, v, hasFrame, origin) ==
    IF ~StdEqualPrefix(captureName, localName)
    THEN [status |-> S_FALSE, emits |-> <<>>]
    ELSE FlattenLocal(WalkMembersAt(v, hasFrame, 1), origin)

\* IfFailRet(h); if (Status == S_OK) ...; cb(...): what a variable gives,
\* followed by what the rest of the enumeration gives. h is the result of
\* the special handling of the variable, shown the visitor call made when
\* the special handling declined (S_FALSE).
SubstituteOrShow(h, shown, rest) ==
    IF h.status = E_FAIL THEN [status |-> E_FAIL, emits |-> h.emits]
    ELSE [status |-> rest.status,
          emits |-> (IF h.status = S_OK THEN h.emits ELSE shown) \o rest.emits]

RECURSIVE ThisParamMembers(_, _, _, _, _)
\* The visitor HandleSpecialThisParam walks `this` with, applied to the
\* member visits from k on; walkStatus is what the member walk returns when
\* the visitor never fails.
ThisParamMembers(visits, k, hasFrame, origin, walkStatus) ==
    IF k > Len(visits) THEN [status |-> walkStatus, emits |-> <<>>]
    ELSE SubstituteOrShow(
             HandleSpecialLocalVar(visits[k].name, visits[k].value, hasFrame, origin),
             <<Emit(IF visits[k].name = <<>> THEN ThisName ELSE visits[k].name,
                    visits[k].value, origin)>>,
             ThisParamMembers(visits, k + 1, hasFrame, origin, walkStatus))

\* The result of walking `this` with the visitor of HandleSpecialThisParam:
\* r is what the member walk gave.
FlattenThis(r, hasFrame, origin) ==
    ThisParamMembers(r.visits, 1, hasFrame, origin, r.status)

\* HandleSpecialThisParam from the rendered type name on.
ThisParamOfType(typeName, v, hasFrame, origin) ==
    LET start == FindLastOf(typeName, ".")
        simple == SubSeq(typeName, start + 1, Len(typeName))
    IN IF start = 0 THEN [status |-> S_FALSE, emits |-> <<>>]
       ELSE IF ~StdEqualPrefix(hideClass, simple) THEN [status |-> S_FALSE, emits |-> <<>>]
       ELSE IF ~StdEqualPrefix(displayClass, simple) THEN [status |-> S_OK, emits |-> <<>>]
       ELSE FlattenThis(WalkMembersAt(v, hasFrame, 1), hasFrame, origin)

\* HandleSpecialThisParam: S_FALSE for a `this` to show as it is, S_OK when
\* it was hidden or replaced by its members.
HandleSpecialThisParam(v, hasFrame, origin) ==
    ThisParamOfType(GetTypeOfValue(v).output, v, hasFrame, origin)

\* The name of argument i (from 0): "this", the name the metadata has for
\* it, or param_<i>.
ParamName(frame, i) ==
    IF i = 0 /\ ~frame.isStatic THEN ThisName
    ELSE LET idx == IF ~frame.isStatic THEN i ELSE i + 1
             wParamName == IF idx \in DOMAIN frame.paramNames
                           THEN frame.paramNames[idx] ELSE <<>>
         IN IF Len(wParamName) = 0 THEN <<"p", "a", "r", "a", "m", "_">> \o ToDecimal(i) ELSE wParamName

RECURSIVE ArgLoop(_, _)
\* The loop over the arguments, from argument i (from 0) on.
ArgLoop(frame, i) ==
    IF i >= Len(frame.args) THEN [status |-> S_OK, emits |-> <<>>]
    ELSE IF frame.args[i + 1].next = "fail" THEN ArgLoop(frame, i + 1)
    ELSE IF frame.args[i + 1].next = "end" THEN [status |-> S_OK, emits |-> <<>>]
    ELSE SubstituteOrShow(
             IF i = 0 /\ ~frame.isStatic
             THEN HandleSpecialThisParam(frame.args[i + 1].value, TRUE,
                                         [kind |-> "arg", idx |-> i])
             ELSE [status |-> S_FALSE, emits |-> <<>>],
             <<Emit(ParamName(frame, i), frame.args[i + 1].value,
                    [kind |-> "arg", idx |-> i])>>,
             ArgLoop(frame, i + 1))

\* Mutant of OutOfScope: the end of the interval is in scope.
OutOfScope_EndInclusive(offset, l) == offset < l.ilStart \/ offset > l.ilEnd

\* currentIlOffset < ilStart || currentIlOffset >= ilEnd
OutOfScope(offset, l) == offset < l.ilStart \/ offset >= l.ilEnd

RECURSIVE LocalLoop(_, _)
\* The loop over the local slots, from slot i (from 0) on.
LocalLoop(frame, i) ==
    IF i >= Len(frame.locals) THEN [status |-> S_OK, emits |-> <<>>]
    ELSE IF frame.locals[i + 1].status = "fail" THEN LocalLoop(frame, i + 1)
    ELSE IF OutOfScope(frame.offset, frame.locals[i + 1]) THEN LocalLoop(frame, i + 1)
    ELSE IF frame.locals[i + 1].status = "sfalse" THEN [status |-> S_OK, emits |-> <<>>]
    ELSE SubstituteOrShow(
             HandleSpecialLocalVar(frame.locals[i + 1].name, frame.locals[i + 1].value,
                                   TRUE, [kind |-> "local", idx |-> i]),
             <<Emit(frame.locals[i + 1].name, frame.locals[i + 1].value,
                    [kind |-> "local", idx |-> i])>>,
             LocalLoop(frame, i + 1))

\* IfFailRet(cb(...)): a frame visitor that fails at its k-th call (k > 0)
\* ends the walk there with its failure.
WithCallback(r, k) ==
    IF k > 0 /\ Len(r.emits) >= k
    THEN [status |-> E_FAIL, emits |-> SubSeq(r.emits, 1, k)]
    ELSE r

\* Mutant of LocalsAfter: the locals are reported before the arguments.
LocalsAfter_LocalsFirst(frame, a, l) ==
    IF a.status = E_FAIL THEN a
    ELSE IF ~frame.ipOk \/ ~frame.localsOk THEN [status |-> E_FAIL, emits |-> a.emits]
    ELSE [status |-> l.status, emits |-> l.emits \o a.emits]

\* The locals part of WalkStackVars, after the arguments gave a.
LocalsAfter(frame, a, l) ==
    IF a.status = E_FAIL THEN a
    ELSE IF ~frame.ipOk \/ ~frame.localsOk THEN [status |-> E_FAIL, emits |-> a.emits]
    ELSE [status |-> l.status, emits |-> a.emits \o l.emits]

\* WalkStackVars(pFrame, cb) with a visitor that returns S_OK.
WalkStackVarsOk(frame) ==
    IF ~frame.setupOk \/ ~frame.argsOk THEN [status |-> E_FAIL, emits |-> <<>>]
    ELSE IF Len(frame.args) > 0 /\ ~frame.methodPropsOk
    THEN [status |-> E_FAIL, emits |-> <<>>]
    ELSE LocalsAfter(frame, ArgLoop(frame, 0), LocalLoop(frame, 0))

\* WalkStackVars(pFrame, cb).
WalkStackVars(frame, cbFailAt) == WithCallback(WalkStackVarsOk(frame), cbFailAt)

(***************************************************************************)
(* The frames the frame walker is run on.                                  *)
(***************************************************************************)
MaxNest     == 3
MaxLocals   == 2
MaxCaptured == 2

PlainClass == ClassType(TypeDef(<<"N", ".", "A">>))

PlainObject == ObjectValue("value", TRUE,
                   <<Level(PlainClass, <<Field(<<"f">>, FALSE, FALSE, Leaf)>>, <<>>),
                     RootLevel(SystemObject)>>)

\* The name the compiler gives the k-th hoisted-capture container, and the
\* name of the variable captured at that level.
MarkerName(k) == <<"C", "S", "$", "<", ">", "8", "_", "_", "l", "o", "c", "a", "l", "s">> \o ToDecimal(k)
LeafName(k) == <<"v">> \o ToDecimal(k)

RECURSIVE ContainerValue(_)
\* A hoisted-capture container nested k levels deep: it holds the variable
\* of its level and, for k > 1, the container of the level below.
ContainerValue(k) ==
    ObjectValue("value", TRUE,
        <<Level(ClassType(NestedDef(<<"<", ">", "c", "_", "_", "D", "i", "s", "p", "l", "a", "y", "C", "l", "a", "s", "s">> \o ToDecimal(k), TypeDef(<<"N", ".", "A">>))),
                <<Field(LeafName(k), FALSE, FALSE, Leaf)>>
                  \o (IF k > 1
                      THEN <<Field(MarkerName(k - 1), FALSE, FALSE, ContainerValue(k - 1))>>
                      ELSE <<>>),
                <<>>),
          RootLevel(SystemObject)>>)

\* The type definitions `this` is tried with: closure containers with and
\* without a namespace, nested and not; the static-closure holder; a class.
ClosureDefs ==
    { TypeDef(<<"N", ".", "<", ">", "c", "_", "_", "D", "i", "s", "p", "l", "a", "y", "C", "l", "a", "s", "s", "0", "_", "0">>),
      TypeDef(<<"<", ">", "c", "_", "_", "D", "i", "s", "p", "l", "a", "y", "C", "l", "a", "s", "s", "0", "_", "0">>),
      NestedDef(<<"<", ">", "c", "_", "_", "D", "i", "s", "p", "l", "a", "y", "C", "l", "a", "s", "s", "0", "_", "0">>, TypeDef(<<"N", ".", "A">>)),
      NestedDef(<<"<", ">", "c", "_", "_", "D", "i", "s", "p", "l", "a", "y", "C", "l", "a", "s", "s", "0", "_", "0">>, TypeDef(<<"A">>)) }

ThisDefs ==
    ClosureDefs \cup { TypeDef(<<"N", ".", "<", ">", "c">>), NestedDef(<<"<", ">", "c">>, TypeDef(<<"N", ".", "A">>)), TypeDef(<<"N", ".", "A">>) }

OuterThisName == <<"<", ">", "4", "_", "_", "t", "h", "i", "s">>

\* The fields a closure container may hold: a captured variable, the
\* captured outer `this`, and hoisted-capture containers.
CapturedVariants ==
    { Field(<<"x">>, FALSE, FALSE, Leaf),
      Field(OuterThisName, FALSE, FALSE, PlainObject) }
    \cup { Field(MarkerName(k), FALSE, FALSE, ContainerValue(k)) : k \in 1..MaxNest }

DistinctNames(fs) == \A i, j \in DOMAIN fs : i # j => fs[i].name # fs[j].name

CapturedSets == {fs \in SeqsUpTo(CapturedVariants, MaxCaptured) : DistinctNames(fs)}

ThisValue(def, captured) ==
    ObjectValue("value", TRUE,
        <<Level(ClassType(def), captured, <<>>), RootLevel(SystemObject)>>)

Arg(next, value) == [next |-> next, value |-> value]

Local(status, name, value, ilStart, ilEnd) ==
    [status |-> status, name |-> name, value |-> value,
     ilStart |-> ilStart, ilEnd |-> ilEnd]

IlRanges == { <<0, 2>>, <<1, 3>>, <<2, 3>> }
IlOffsets == 0..3

\* What the symbol reader may give for a slot: a named local or a
\* hoisted-capture container with its interval, a failure, or S_FALSE.
LocalVariants ==
    { Local("ok", nv[1], nv[2], r[1], r[2]) :
        nv \in { <<<<"a">>, Leaf>> } \cup { <<MarkerName(k), ContainerValue(k)>> : k \in 1..MaxNest },
        r \in IlRanges }
    \cup { Local("fail", <<>>, NoValue, 0, 0), Local("sfalse", <<>>, NoValue, 1, 3) }

Frame(isStatic, paramNames, args, offset, locals) ==
    [setupOk |-> TRUE, argsOk |-> TRUE, methodPropsOk |-> TRUE, isStatic |-> isStatic,
     paramNames |-> paramNames, args |-> args, ipOk |-> TRUE, localsOk |-> TRUE,
     offset |-> offset, locals |-> locals]

StackInput(frame, cbFailAt) == [frame |-> frame, cbFailAt |-> cbFailAt]

\* The parameter names of the method with the arguments after the first.
NamesAndArgs ==
    { << <<>>, <<>> >>,
      << <<>>, <<Arg("ok", Leaf)>> >>,
      << << <<"p">> >>, <<Arg("ok", Leaf)>> >>,
      << << <<>>, <<"q">> >>, <<Arg("fail", NoValue), Arg("ok", Leaf)>> >>,
      << << <<"p">>, <<"q">> >>, <<Arg("end", NoValue), Arg("ok", Leaf)>> >> }

\* Instance methods with every kind of `this`.
ThisFrames ==
    { StackInput(Frame(FALSE, na[1], <<Arg("ok", ThisValue(def, captured))>> \o na[2],
                       1, <<Local("ok", <<"a">>, Leaf, 0, 2)>>), 0) :
        def \in ThisDefs, captured \in CapturedSets, na \in NamesAndArgs }

\* Static methods with every arrangement of locals.
LocalFrames ==
    { StackInput(Frame(TRUE, << <<"p">> >>, <<Arg("ok", Leaf)>>, offset, locals), 0) :
        offset \in IlOffsets, locals \in SeqsUpTo(LocalVariants, MaxLocals) }

\* Static methods with parameters with and without names, and a visitor
\* that fails.
StaticFrames ==
    { StackInput(Frame(TRUE, na[1], na[2], 1,
                       <<Local("ok", MarkerName(2), ContainerValue(2), 0, 2),
                         Local("ok", <<"a">>, Leaf, 0, 2)>>), cbFailAt) :
        na \in NamesAndArgs, cbFailAt \in 0..2 }

\* Frames on which one of the queries of WalkStackVars fails.
FailingFrames ==
    { StackInput([Frame(FALSE, <<>>, args, 1, <<Local("ok", <<"a">>, Leaf, 0, 2)>>)
                     EXCEPT ![flag] = FALSE], 0) :
        flag \in {"setupOk", "argsOk", "methodPropsOk", "ipOk", "localsOk"},
        args \in { <<>>, <<Arg("ok", PlainObject)>> } }

StackInputs == ThisFrames \cup LocalFrames \cup StaticFrames \cup FailingFrames

InitStack ==
    /\ spc = "ready"
    /\ sIn \in StackInputs
    /\ sOut = <<>>
    /\ evalOffInit
    /\ walkOff /\ typeOff

\* A caller runs WalkStackVars on the frame with its visitor.
DoWalkStackVars ==
    /\ spc = "ready"
    /\ sOut' = WalkStackVars(sIn.frame, sIn.cbFailAt)
    /\ spc' = "done"
    /\ UNCHANGED <<sIn, evalVars, walkVars, typeVars>>

NextStack == DoWalkStackVars

SpecStack == InitStack /\ [][NextStack]_vars

(***************************************************************************)
(* The values and types the type printer is run on.                        *)
(***************************************************************************)
MaxAdorn == 2

PrimitiveType(elem) == [elem |-> elem, getTypeOk |-> TRUE]

\* A vector (SZARRAY), an array of the given rank (ARRAY), a by-ref (BYREF)
\* or a pointer (PTR) over the type first.
AdornType(kind, rank, first) ==
    [elem |-> kind, getTypeOk |-> TRUE, firstOk |-> TRUE, rankOk |-> TRUE,
     rank |-> rank, first |-> first]

\* List<int>, as the runtime presents it: a class with one type argument.
ListOfInt == [ClassType(TypeDef(<<"L", "i", "s", "t">>)) EXCEPT !.args = <<PrimitiveType("I4")>>]

CoreTypes == { PrimitiveType("I4"), PrimitiveType("U1"), UserType(1), ListOfInt }

\* The ways of building a type over the type t; nothing is built over a
\* by-ref.
Adornments(t) ==
    IF t.elem = "BYREF" THEN {}
    ELSE { AdornType("SZARRAY", 1, t), AdornType("BYREF", 1, t), AdornType("PTR", 1, t) }
         \cup { AdornType("ARRAY", r, t) : r \in 2..MaxRank }

RECURSIVE AdornedTypes(_)
\* The types built by nesting up to n constructors over a core type.
AdornedTypes(n) ==
    IF n = 0 THEN CoreTypes
    ELSE AdornedTypes(n - 1) \cup UNION {Adornments(t) : t \in AdornedTypes(n - 1)}

TypedValue(ty) == [getTypeOk |-> TRUE, value2Ok |-> TRUE, exactTypeOk |-> TRUE, ty |-> ty]

\* Values on which one query fails: the element kind of the value, its
\* exact type, the element kind of the type, its class, its module, the
\* properties of its definition or of its enclosing definition, its type
\* arguments, the first type parameter of an adorned type, or the rank of
\* an array type (also a rank of 0).
FailingValues ==
    LET nested == ClassType(NestedDef(<<"B">>, TypeDef(<<"N", ".", "A">>)))
    IN { [TypedValue(UserType(1)) EXCEPT !.getTypeOk = FALSE],
         [TypedValue(UserType(1)) EXCEPT !.value2Ok = FALSE],
         [TypedValue(UserType(1)) EXCEPT !.exactTypeOk = FALSE],
         TypedValue([UserType(1) EXCEPT !.getTypeOk = FALSE]),
         TypedValue([UserType(1) EXCEPT !.classOk = FALSE]),
         TypedValue([UserType(1) EXCEPT !.moduleOk = FALSE]),
         TypedValue([UserType(1) EXCEPT !.def.propsOk = FALSE]),
         TypedValue([nested EXCEPT !.def.nestedPropsOk = FALSE]),
         TypedValue([nested EXCEPT !.def.enclosing.propsOk = FALSE]),
         TypedValue([ListOfInt EXCEPT !.enumArgsOk = FALSE]),
         TypedValue([ListOfInt EXCEPT !.args[1].getTypeOk = FALSE]),
         TypedValue([AdornType("SZARRAY", 1, UserType(1)) EXCEPT !.firstOk = FALSE]),
         TypedValue(AdornType("PTR", 1, [UserType(1) EXCEPT !.moduleOk = FALSE])),
         TypedValue([AdornType("ARRAY", 2, PrimitiveType("I4")) EXCEPT !.rankOk = FALSE]),
         TypedValue(AdornType("ARRAY", 0, PrimitiveType("I4"))),
         TypedValue(nested) }

TypeInputs == {TypedValue(t) : t \in AdornedTypes(MaxAdorn)} \cup FailingValues

InitType ==
    /\ tpc = "ready"
    /\ tIn \in TypeInputs
    /\ tOut = <<>>
    /\ evalOffInit
    /\ walkOff /\ stackOff

\* A caller runs TypePrinter::GetTypeOfValue on the value.
DoGetTypeOfValue ==
    /\ tpc = "ready"
    /\ tOut' = GetTypeOfValue(tIn)
    /\ tpc' = "done"
    /\ UNCHANGED <<tIn, evalVars, walkVars, stackVars>>

NextType == DoGetTypeOfValue

SpecType == InitType /\ [][NextType]_vars

(***************************************************************************)
(* Claims about the evaluator                                              *)
(***************************************************************************)

Resumed(t) == hist[t].status = "running" /\ hist[t].resumed

\* C1: in single-flight use a completion signal is never lost: once the
\* process was resumed for an evaluation and the event source notifies it,
\* the caller eventually gets past the wait and retrieves the result.
C1_SignalNeverLost ==
    \A t \in {"c1"} : Resumed(t) ~> (pc[t] = "getresult")

\* C2 as stated: each call clears the flag before it resumes the process and
\* retrieves its result only after the notify of its own evaluation has set
\* the flag after that clear; neither a flag left true by the previous call
\* nor a notify called while no evaluation was outstanding lets it through.
C2_AsStated ==
    \A t \in Callers :
        /\ hist[t].resumeCalled => hist[t].cleared
        /\ pc[t] = "getresult" =>
              /\ hist[t].cleared
              /\ hist[t].resumed
              /\ hist[t].ownSet

\* C2, amended: each call clears the flag before it resumes the process and
\* retrieves its result only after a notify has set the flag after that
\* clear, so a flag that was true when the call cleared it never lets the
\* call through; that notify is the one of the call's own evaluation unless
\* a notify called while no evaluation was outstanding has set the flag
\* after the clear of this call or of an earlier one.
C2_FreshCompletion ==
    \A t \in Callers :
        /\ hist[t].resumeCalled => hist[t].cleared
        /\ pc[t] = "getresult" =>
              /\ hist[t].cleared
              /\ hist[t].resumed
              /\ hist[t].setSinceClear
              /\ (~hist[t].lateStray => hist[t].ownSet)

\* A call that found the flag still true from before, cleared it, waited and
\* now retrieves its result.
C2_Witness ==
    /\ pc["c1"] = "getresult"
    /\ hist["c1"].staleAtClear
    /\ hist["c1"].waited
    /\ hist["c1"].ownSet

\* The setup calls whose failure C3 is about.
C3Failures ==
    {"CreateEval", "QueryInterface", "CallParameterizedFunction",
     "NewParameterizedObjectNoConstructor"}

\* C3: when creating the evaluation object, obtaining the parameterized-call
\* interface or submitting the call fails, the function has returned the
\* failure without clearing the flag, resuming the process or waiting.
C3_SetupFailureReturnsAtOnce ==
    \A t \in Callers :
        hist[t].failedAt \in C3Failures =>
            /\ hist[t].status = "fail"
            /\ pc[t] = "idle"
            /\ ~hist[t].cleared
            /\ ~hist[t].resumeCalled
            /\ ~hist[t].waited

\* EvalObjectNoConstructor has returned the failure of its submission while
\* the flag was true.
C3_Witness ==
    /\ hist["c1"].kind = "EvalObjectNoConstructor"
    /\ hist["c1"].failedAt = "NewParameterizedObjectNoConstructor"
    /\ hist["c1"].status = "fail"
    /\ g_evalComplete

(***************************************************************************)
(* Claims about the member walker                                          *)
(***************************************************************************)
WalkDone == wpc = "done"

IsObjectInput == wpc # "off" /\ ~wIn.v.isArray

\* The visits of the walk that name n on level l.
VisitsNamed(n, l) ==
    {k \in 1..Len(wOut.visits) : wOut.visits[k].name = n /\ wOut.visits[k].level = l}

\* Level l of the chain is walked: it is not the root type, and every level
\* before it gave its base type.
Walked(l) ==
    /\ l < Len(wIn.v.chain)
    /\ \A m \in 1..(l - 1) :
          /\ wIn.v.chain[m].baseOk
          /\ GetTypeOfType(wIn.v.chain[m + 1].ty).output \notin RootNames

\* The declarations of the backing field of P and of the property P on
\* level l.
BackingFieldsAt(l) ==
    {j \in DOMAIN wIn.v.chain[l].fields : wIn.v.chain[l].fields[j].name = BackingP}

PropertiesPAt(l) ==
    {j \in DOMAIN wIn.v.chain[l].props : wIn.v.chain[l].props[j].name = NameP}

TheBackingField(l) == wIn.v.chain[l].fields[CHOOSE j \in BackingFieldsAt(l) : TRUE]

ThePropertyP(l) == wIn.v.chain[l].props[CHOOSE j \in PropertiesPAt(l) : TRUE]

\* Level l declares the auto-property P, instance or static, and exactly one
\* backing field for it, static exactly when P is; the walk came to level l
\* and ran to its end on a value that unwrapped.
AutoPropertyCase(l) ==
    /\ wOut.status = S_OK
    /\ wIn.v.deref \in {"value", "nullref"}
    /\ Walked(l)
    /\ Cardinality(BackingFieldsAt(l)) = 1
    /\ Cardinality(PropertiesPAt(l)) = 1
    /\ TheBackingField(l).isStatic = ThePropertyP(l).isStatic

\* The field loop came to the backing field, read its metadata and fetched
\* its value: a static field through the frame, an instance field through
\* the object.
BackingFetched(l) ==
    LET L == wIn.v.chain[l]
        j == CHOOSE i \in BackingFieldsAt(l) : TRUE
    IN /\ L.fields[j].propsOk /\ ~L.fields[j].isLiteral
       /\ L.fieldEnumFailAt = 0 \/ j < L.fieldEnumFailAt
       /\ IF L.fields[j].isStatic THEN wIn.hasFrame ELSE wIn.v.objAccess
       /\ L.fields[j].val # NoValue

\* The property loop came to P and read its metadata and its getter's.
PropertyRead(l) ==
    LET L == wIn.v.chain[l]
        j == CHOOSE i \in PropertiesPAt(l) : TRUE
    IN /\ L.props[j].propsOk /\ L.props[j].getterOk
       /\ L.propEnumFailAt = 0 \/ j < L.propEnumFailAt

\* An instance member on a null receiver.
SuppressedOnNull(l) == wIn.v.deref = "nullref" /\ ~ThePropertyP(l).isStatic

\* C4 as stated: on a level, an auto-property with a backing field gives
\* exactly one visit of that name when the backing field's value was
\* fetched, and no visit of that name at all when it cannot be fetched.
C4_AsStated ==
    WalkDone /\ IsObjectInput =>
        \A l \in 1..(Len(wIn.v.chain) - 1) :
            AutoPropertyCase(l) /\ wIn.v.deref = "value" =>
                IF BackingFetched(l)
                THEN Cardinality(VisitsNamed(NameP, l)) = 1
                ELSE VisitsNamed(NameP, l) = {}

\* C4 (amended): on every level that is walked, an auto-property with a
\* backing field gives at most one visit of that name, never the field and
\* the property both. An instance auto-property on a null receiver gives
\* none. Otherwise (a receiver that is not null, or a static auto-property,
\* on a null receiver too) the visit is the backing field under the
\* stripped name, carrying its value, when the field's value was fetched;
\* when it was not, the field is dropped without being remembered and the
\* visit is the property, carrying its getter; the name is not visited at
\* all only when the metadata of the property or of its getter cannot be
\* read either.
C4_OneVisitPerAutoProperty ==
    WalkDone /\ IsObjectInput =>
        \A l \in 1..(Len(wIn.v.chain) - 1) :
            AutoPropertyCase(l) =>
                /\ Cardinality(VisitsNamed(NameP, l)) <= 1
                /\ IF SuppressedOnNull(l) THEN VisitsNamed(NameP, l) = {}
                   ELSE IF BackingFetched(l)
                   THEN \E k \in VisitsNamed(NameP, l) :
                           /\ wOut.visits[k].kind = "field"
                           /\ wOut.visits[k].value = TheBackingField(l).val
                           /\ wOut.visits[k].isStatic = TheBackingField(l).isStatic
                   ELSE IF PropertyRead(l)
                   THEN \E k \in VisitsNamed(NameP, l) :
                           /\ wOut.visits[k].kind = "prop"
                           /\ wOut.visits[k].getter = "mdGetter"
                           /\ wOut.visits[k].value = NoValue
                           /\ wOut.visits[k].isStatic = ThePropertyP(l).isStatic
                   ELSE VisitsNamed(NameP, l) = {}

\* A null reference of a type with a static auto-property has been walked
\* without a frame: the backing field could not be fetched and the static
\* property P was visited in its place, next to another member.
C4_Witness ==
    /\ WalkDone /\ IsObjectInput
    /\ AutoPropertyCase(1) /\ wIn.v.deref = "nullref"
    /\ ThePropertyP(1).isStatic
    /\ ~BackingFetched(1)
    /\ \E k \in VisitsNamed(NameP, 1) : wOut.visits[k].kind = "prop"
    /\ Len(wOut.visits) > 1

BaseName(level) == GetTypeOfType(wIn.v.chain[level + 1].ty).output

\* C5: walking a value whose type derives directly from System.Enum calls
\* the visitor zero times, whatever the enum type declares.
C5_EnumHasNoMembers ==
    /\ WalkDone /\ IsObjectInput
    /\ wIn.v.deref = "value"
    /\ Len(wIn.v.chain) = 2
    /\ BaseName(1) = SystemEnum
    => wOut.visits = <<>>

RECURSIVE DimProduct(_, _)
\* The product of the dimensions after position i.
DimProduct(dims, i) ==
    IF i >= Len(dims) THEN 1 ELSE dims[i + 1] * DimProduct(dims, i + 1)

\* The row-major index tuple of storage position k.
RowMajor(k, dims) ==
    [i \in 1..Len(dims) |-> (k \div DimProduct(dims, i)) % dims[i]]

\* An index in decimal.
SignedDecimal(n) == IF n < 0 THEN <<"-">> \o ToDecimal(-n) ELSE ToDecimal(n)

RECURSIVE JoinWith(_, _, _)
JoinWith(nums, sep, i) ==
    IF i > Len(nums) THEN <<>>
    ELSE (IF i = 1 THEN <<>> ELSE sep) \o SignedDecimal(nums[i]) \o JoinWith(nums, sep, i + 1)

\* The name of the index tuple t with the separator sep.
TupleName(t, sep) == <<"[">> \o JoinWith(t, sep, 1) \o <<"]">>

LowerBounds == IF wIn.v.arr.hasBase THEN wIn.v.arr.base ELSE Zeros(wIn.v.arr.rank)

ArrayCase == WalkDone /\ wIn.v.isArray /\ wOut.status = S_OK

NamesOf(visits) == [k \in 1..Len(visits) |-> visits[k].name]

\* The element names of an array walk are those of the row-major index
\* tuples plus the lower bounds, written with the separator sep.
ElementNamesAre(sep) ==
    /\ Len(wOut.visits) = wIn.v.arr.count
    /\ \A k \in 1..Len(wOut.visits) :
          /\ wOut.visits[k].kind = "elem"
          /\ wOut.visits[k].name =
                TupleName([i \in 1..wIn.v.arr.rank |->
                             LowerBounds[i] + RowMajor(k - 1, wIn.v.arr.dims)[i]], sep)

SpecExampleArray ==
    /\ wIn.v.isArray /\ wIn.v.arr.hasBase
    /\ wIn.v.arr.dims = <<2, 3>> /\ wIn.v.arr.base = <<1, 2>>

\* C6: the elements of an array are visited in storage order, one visit per
\* element and nothing else, and visit k is named by the index tuple lower
\* bound plus row-major index of k (the indices of a name separated by a
\* comma and a space): lower bounds [1,2] with lengths [2,3] give the names
\* "[1, 2]", "[1, 3]", "[1, 4]", "[2, 2]", "[2, 3]", "[2, 4]".
C6_ArrayElementsInOdometerOrder ==
    ArrayCase =>
        /\ ElementNamesAre(<<",", " ">>)
        /\ SpecExampleArray =>
              NamesOf(wOut.visits) =
                << <<"[", "1", ",", " ", "2", "]">>, <<"[", "1", ",", " ", "3", "]">>,
                   <<"[", "1", ",", " ", "4", "]">>, <<"[", "2", ",", " ", "2", "]">>,
                   <<"[", "2", ",", " ", "3", "]">>, <<"[", "2", ",", " ", "4", "]">> >>

\* The visits a level gives when its type is walked alone, below Object.
LevelAlone(l) ==
    LET alone == ObjectValue(wIn.v.deref, wIn.v.objAccess,
                             <<wIn.v.chain[l], RootLevel(SystemObject)>>)
        vs == WalkMembersAt(alone, wIn.hasFrame, 1).visits
    IN [k \in 1..Len(vs) |-> [vs[k] EXCEPT !.level = l]]

RECURSIVE ConcatLevels(_, _)
ConcatLevels(l, n) == IF l > n THEN <<>> ELSE LevelAlone(l) \o ConcatLevels(l + 1, n)

KindRank(kind) == IF kind = "field" THEN 0 ELSE 1

\* Visit a comes before visit b in level, then fields before properties,
\* then declaration order.
Before(a, b) ==
    \/ a.level < b.level
    \/ a.level = b.level /\ KindRank(a.kind) < KindRank(b.kind)
    \/ a.level = b.level /\ a.kind = b.kind /\ a.idx < b.idx

\* The value gives its ICorDebugValue2 surface and its exact type.
TypeObtained == wIn.v.value2Ok /\ wIn.v.exactTypeOk

\* A chain of user types that ends in Object or ValueType, each with a base
\* type query that succeeds, on a value that gives its type, walked with a
\* visitor that never fails.
ChainCase ==
    /\ WalkDone /\ IsObjectInput
    /\ TypeObtained
    /\ \A l \in 1..(Len(wIn.v.chain) - 1) : wIn.v.chain[l].baseOk
    /\ wIn.v.deref \in {"value", "nullref"}
    /\ wIn.cbFailAt = 0
    /\ BaseName(Len(wIn.v.chain) - 1) \in {SystemObject, SystemValueType}

\* C7: for a chain T1 -> ... -> Tn -> Object (or ValueType) the walk ends
\* with success and its visits are, level by level from T1 to Tn, the
\* fields of the level in declaration order and then its properties in
\* declaration order; nothing is visited for the root type and no level
\* twice.
C7_LevelByLevel ==
    ChainCase =>
        /\ wOut.status = S_OK
        /\ wOut.visits = ConcatLevels(1, Len(wIn.v.chain) - 1)
        /\ \A a, b \in 1..Len(wOut.visits) :
              a < b => Before(wOut.visits[a], wOut.visits[b])
        /\ \A k \in 1..Len(wOut.visits) : wOut.visits[k].level < Len(wIn.v.chain)

\* A chain of two user types has been walked, with a field and a property
\* visited on the first level and a member on the second.
C7_Witness ==
    /\ ChainCase
    /\ Len(wIn.v.chain) = 3
    /\ \E a, b, c \in 1..Len(wOut.visits) :
          /\ a < b /\ b < c
          /\ wOut.visits[a].level = 1 /\ wOut.visits[a].kind = "field"
          /\ wOut.visits[b].level = 1 /\ wOut.visits[b].kind = "prop"
          /\ wOut.visits[c].level = 2

UnwrappedNull == wIn.v.deref \in {"null", "nullref"}

StaticFieldShown(l, j) ==
    LET L == wIn.v.chain[l]
    IN /\ L.fields[j].isStatic /\ ~L.fields[j].isLiteral /\ L.fields[j].propsOk
       /\ L.fieldEnumFailAt = 0 \/ j < L.fieldEnumFailAt
       /\ L.fields[j].name[1] = "<" => wIn.hasFrame /\ L.fields[j].val # NoValue

\* Level l declares a backing field for the property called name, and the
\* field loop fetched its value.
FetchedBackingOf(l, name) ==
    LET L == wIn.v.chain[l]
    IN \E j \in DOMAIN L.fields :
          /\ L.fields[j].name[1] = "<" /\ StripBackingName(L.fields[j].name) = name
          /\ L.fields[j].propsOk /\ ~L.fields[j].isLiteral
          /\ L.fieldEnumFailAt = 0 \/ j < L.fieldEnumFailAt
          /\ IF L.fields[j].isStatic THEN wIn.hasFrame ELSE wIn.v.objAccess
          /\ L.fields[j].val # NoValue

\* Property j of level l is one the property loop hands to the visitor on a
\* null receiver: a static property whose metadata and getter were read and
\* whose backing field was not fetched.
StaticPropertyShown(l, j) ==
    LET L == wIn.v.chain[l]
    IN /\ L.props[j].isStatic /\ L.props[j].propsOk /\ L.props[j].getterOk
       /\ L.propEnumFailAt = 0 \/ j < L.propEnumFailAt
       /\ ~FetchedBackingOf(l, L.props[j].name)

\* The visits of member j of the given kind on level l.
VisitsOf(kind, l, j) ==
    {k \in 1..Len(wOut.visits) :
        /\ wOut.visits[k].level = l /\ wOut.visits[k].kind = kind
        /\ wOut.visits[k].idx = j}

StackDone == spc = "done"

\* The part of a metadata type name after its namespace.
SimpleName(n) == SubSeq(n, RFind(n, ".") + 1, Len(n))

\* Argument 0 of the frame is a fetched `this` whose type is a closure
\* container, and the visitor never fails.
ClosureThisCase ==
    /\ StackDone
    /\ sIn.cbFailAt = 0
    /\ sIn.frame.setupOk /\ sIn.frame.argsOk /\ sIn.frame.methodPropsOk
    /\ ~sIn.frame.isStatic
    /\ Len(sIn.frame.args) > 0
    /\ sIn.frame.args[1].next = "ok"
    /\ StdEqualPrefix(displayClass, SimpleName(sIn.frame.args[1].value.ty.def.name))

EmittedNames == {sOut.emits[k].name : k \in 1..Len(sOut.emits)}

ThisFields == sIn.frame.args[1].value.chain[1].fields

\* C9: when argument 0 is a `this` whose type is a closure container, the
\* visitor is never called with the name "this", and every captured
\* variable of the container is emitted under its own name, for every
\* closure container type and every set of captured fields.
C9_ClosureThisNeverEmitted ==
    ClosureThisCase =>
        /\ ThisName \notin EmittedNames
        /\ \A j \in DOMAIN ThisFields :
              ThisFields[j].name = <<"x">> =>
                 \E k \in 1..Len(sOut.emits) :
                    /\ sOut.emits[k].name = <<"x">>
                    /\ sOut.emits[k].origin = [kind |-> "arg", idx |-> 0]

IsMarkerName(n) == StdEqualPrefix(captureName, n)

\* The nesting depth of the container a field or local holds.
RECURSIVE Depth(_)
Depth(v) ==
    LET inner == {j \in DOMAIN v.chain[1].fields : IsMarkerName(v.chain[1].fields[j].name)}
    IN IF inner = {} THEN 1
       ELSE 1 + Depth(v.chain[1].fields[CHOOSE j \in inner : TRUE].val)

\* Slot i (from 0) is reached by the loop over the locals: no slot before it
\* ended the loop.
SlotReached(i) ==
    \A j \in 1..i :
       ~(sIn.frame.locals[j].status = "sfalse"
         /\ ~OutOfScope(sIn.frame.offset, sIn.frame.locals[j]))

\* Slot i holds a hoisted-capture container that is in scope.
ContainerLocal(i) ==
    /\ i < Len(sIn.frame.locals)
    /\ SlotReached(i)
    /\ sIn.frame.locals[i + 1].status = "ok"
    /\ IsMarkerName(sIn.frame.locals[i + 1].name)
    /\ ~OutOfScope(sIn.frame.offset, sIn.frame.locals[i + 1])

LocalsCase ==
    /\ StackDone
    /\ sIn.cbFailAt = 0
    /\ sOut.status = S_OK
    /\ sIn.frame.isStatic

\* The names the visitor was called with for the variable of this origin.
NamesFrom(origin) ==
    LET ks == {k \in 1..Len(sOut.emits) : sOut.emits[k].origin = origin}
    IN [name \in {sOut.emits[k].name : k \in ks} |->
          Cardinality({k \in ks : sOut.emits[k].name = name})]

\* Argument 0 is a closure container whose type is not nested and lies in a
\* namespace: the `this` the walker replaces by its members.
ThisFlattened ==
    /\ ClosureThisCase
    /\ ~sIn.frame.args[1].value.ty.def.nested
    /\ RFind(sIn.frame.args[1].value.ty.def.name, ".") > 0

\* The name under which a field of a flattened `this` reaches the visitor:
\* a hoisted-capture container gives the variable of its outermost level,
\* the captured outer `this` gives "this", any other field its own name.
FlattenedName(f) ==
    IF IsMarkerName(f.name) THEN LeafName(Depth(f.val))
    ELSE IF f.name = OuterThisName THEN ThisName
    ELSE f.name

\* C10 as stated: a hoisted-capture container is replaced by its members
\* recursively, so for a container nested k levels deep the variable of
\* every level is emitted exactly once and no emitted name starts with the
\* marker.
C10_AsStated ==
    LocalsCase =>
        \A i \in 0..(MaxLocals - 1) :
           ContainerLocal(i) =>
              LET d == Depth(sIn.frame.locals[i + 1].value)
              IN NamesFrom([kind |-> "local", idx |-> i])
                   = [name \in {LeafName(l) : l \in 1..d} |-> 1]

\* C10 (amended): a local, or a member of a flattened `this`, whose name
\* starts with the hoisted-capture marker is never emitted and its own
\* members are emitted in its place, except those whose names start with
\* the marker in turn: these are passed over with everything below them.
\* So for a container nested k levels deep only the variable of the
\* outermost level is emitted, exactly once, and no name emitted for a
\* local or for a member of a flattened `this` starts with the marker.
\* (A `this` is flattened when its type is a closure container that is not
\* nested and lies in a namespace.)
C10_FlatteningIsOneLevel ==
    /\ LocalsCase =>
          /\ \A i \in 0..(MaxLocals - 1) :
                ContainerLocal(i) =>
                   LET d == Depth(sIn.frame.locals[i + 1].value)
                   IN NamesFrom([kind |-> "local", idx |-> i]) = [name \in {LeafName(d)} |-> 1]
          /\ \A k \in 1..Len(sOut.emits) :
                sOut.emits[k].origin.kind = "local" => ~IsMarkerName(sOut.emits[k].name)
    /\ ThisFlattened /\ sOut.status = S_OK =>
          NamesFrom([kind |-> "arg", idx |-> 0])
            = [name \in {FlattenedName(ThisFields[j]) : j \in DOMAIN ThisFields} |->
                 Cardinality({j \in DOMAIN ThisFields : FlattenedName(ThisFields[j]) = name})]

\* A container nested two or more levels deep was a local in scope: the
\* variable of its outermost level was emitted and those below were not.
C10_Witness ==
    /\ LocalsCase
    /\ \E i \in 0..(MaxLocals - 1) :
          /\ ContainerLocal(i)
          /\ Depth(sIn.frame.locals[i + 1].value) >= 2
          /\ LeafName(Depth(sIn.frame.locals[i + 1].value)) \in EmittedNames
          /\ LeafName(1) \notin EmittedNames

\* The current offset lies in the half-open interval [ilStart, ilEnd) of
\* the local.
InInterval(l) == l.ilStart <= sIn.frame.offset /\ sIn.frame.offset < l.ilEnd

\* The slots from which the visitor was called.
VisitedSlots ==
    {sOut.emits[k].origin.idx :
        k \in {j \in 1..Len(sOut.emits) : sOut.emits[j].origin.kind = "local"}}

\* No slot before slot i (from 0) ended the enumeration of the locals.
NoEndBefore(i) ==
    \A j \in 1..i :
       ~(sIn.frame.locals[j].status = "sfalse" /\ InInterval(sIn.frame.locals[j]))

\* C11: the visitor is never called for a local, or for a member flattened
\* out of a local, when the current IL offset lies outside the local's
\* half-open interval [start, end): offset < start and offset >= end, with
\* offset = end, are excluded; a local with offset = start is in scope and
\* is visited.
C11_OutOfScopeLocalsNeverVisited ==
    StackDone =>
        /\ \A i \in VisitedSlots :
              /\ i < Len(sIn.frame.locals)
              /\ InInterval(sIn.frame.locals[i + 1])
        /\ sIn.cbFailAt = 0 /\ sOut.status = S_OK =>
              \A i \in 0..(Len(sIn.frame.locals) - 1) :
                 /\ sIn.frame.locals[i + 1].status = "ok"
                 /\ sIn.frame.locals[i + 1].ilStart = sIn.frame.offset
                 /\ sIn.frame.locals[i + 1].ilStart < sIn.frame.locals[i + 1].ilEnd
                 /\ NoEndBefore(i)
                 => i \in VisitedSlots

\* A frame with a local whose interval ends at the current offset, which
\* was not visited, and a local whose interval starts there, which was.
C11_Witness ==
    /\ StackDone /\ sIn.cbFailAt = 0
    /\ \E i, j \in 0..(Len(sIn.frame.locals) - 1) :
          /\ sIn.frame.locals[i + 1].status = "ok"
          /\ sIn.frame.locals[i + 1].ilEnd = sIn.frame.offset
          /\ i \notin VisitedSlots
          /\ sIn.frame.locals[j + 1].status = "ok"
          /\ sIn.frame.locals[j + 1].ilStart = sIn.frame.offset
          /\ j \in VisitedSlots

\* The position of a variable in the frame: the arguments in positional
\* order, then the locals in slot order.
OriginRank(origin) ==
    IF origin.kind = "arg" THEN origin.idx ELSE Len(sIn.frame.args) + origin.idx

\* The variable of this origin is one the walker replaces by its members: a
\* `this` argument, or a local named with the hoisted-capture marker.
MayBeFlattened(origin) ==
    IF origin.kind = "arg"
    THEN origin.idx = 0 /\ ~sIn.frame.isStatic
    ELSE IsMarkerName(sIn.frame.locals[origin.idx + 1].name)

\* C12: the visits of WalkStackVars are the arguments in positional order,
\* then the locals in scope in slot order; a flattened variable is replaced
\* at its own position by its members, so no visit of a later variable
\* precedes a visit of an earlier one, no local is visited before an
\* argument, and a variable that is not flattened is visited at most once.
C12_ArgumentsThenLocalsInOrder ==
    StackDone =>
        /\ \A a, b \in 1..Len(sOut.emits) :
              a < b => OriginRank(sOut.emits[a].origin) <= OriginRank(sOut.emits[b].origin)
        /\ \A a, b \in 1..Len(sOut.emits) :
              /\ a < b
              /\ sOut.emits[a].origin = sOut.emits[b].origin
              => MayBeFlattened(sOut.emits[a].origin)
        /\ \A k \in 1..Len(sOut.emits) :
              sOut.emits[k].origin.idx <
                 (IF sOut.emits[k].origin.kind = "arg"
                  THEN Len(sIn.frame.args) ELSE Len(sIn.frame.locals))

\* A frame whose `this` was replaced by two members, followed by a further
\* argument and by a local.
C12_Witness ==
    /\ StackDone
    /\ \E a, b, c, d \in 1..Len(sOut.emits) :
          /\ a < b /\ b < c /\ c < d
          /\ sOut.emits[a].origin = [kind |-> "arg", idx |-> 0]
          /\ sOut.emits[b].origin = [kind |-> "arg", idx |-> 0]
          /\ sOut.emits[c].origin.kind = "arg" /\ sOut.emits[c].origin.idx > 0
          /\ sOut.emits[d].origin.kind = "local"

\* A metadata call fails on the first level of the type walked: the
\* properties of a field, of a property or of a getter cannot be read, an
\* enumeration fails, or the base type cannot be queried.
HardFailureOnFirstLevel ==
    LET L == wIn.v.chain[1]
    IN \/ \E j \in DOMAIN L.fields : ~L.fields[j].propsOk
       \/ \E j \in DOMAIN L.props : ~L.props[j].propsOk \/ ~L.props[j].getterOk
       \/ L.fieldEnumFailAt \in 1..Len(L.fields)
       \/ L.propEnumFailAt \in 1..Len(L.props)
       \/ ~L.baseOk /\ Len(wIn.v.chain) > 1

\* C13: a hard failure of a metadata or accessor call of WalkMembers (field
\* enumeration, field properties, property enumeration, property or getter
\* properties, base type query) makes the walk return the failure, whereas
\* a field whose value cannot be fetched never ends the walk: the walk
\* succeeds and the members after it, on this level and above, are visited.
C13_HardFailureAbortsTheWalk ==
    /\ WalkDone /\ IsObjectInput
    /\ TypeObtained
    /\ wIn.v.deref = "value"
    /\ wIn.cbFailAt = 0
    /\ Len(wIn.v.chain) = 3
    => IF HardFailureOnFirstLevel
       THEN wOut.status = E_FAIL
       ELSE wOut.status = S_OK

(***************************************************************************)
(* Claims about the type printer                                           *)
(***************************************************************************)

RECURSIVE CoreOf(_)
\* The core type an adorned type is built over.
CoreOf(ty) == IF ty.elem \in AdornKinds THEN CoreOf(ty.first) ELSE ty

\* The brackets of one array constructor.
Brackets(ty) ==
    IF ty.elem = "SZARRAY" THEN <<"[", "]">>
    ELSE <<"[">> \o Commas(ty.rank - 1) \o <<"]">>

RECURSIVE NestedAdornment(_)
\* The adornment of a type in nesting order, split in the part that ends at
\* the last pointer or by-ref mark (fixed) and the run of array brackets that
\* follows it (arrays): an array of E puts its brackets before the brackets
\* of E when E is an array and after the whole of E otherwise; a pointer or
\* a by-ref to E puts its mark after the whole of E.
NestedAdornment(ty) ==
    IF ty.elem \notin AdornKinds THEN [fixed |-> <<>>, arrays |-> <<>>]
    ELSE LET e == NestedAdornment(ty.first)
         IN IF ty.elem \in {"SZARRAY", "ARRAY"}
            THEN [fixed |-> e.fixed, arrays |-> Brackets(ty) \o e.arrays]
            ELSE [fixed |-> e.fixed \o e.arrays \o (IF ty.elem = "PTR" THEN <<"*">> ELSE <<"&">>),
                  arrays |-> <<>>]

\* The value is one of the well-formed adorned types and has been printed.
AdornedCase ==
    /\ tpc = "done"
    /\ tIn \in {TypedValue(t) : t \in AdornedTypes(MaxAdorn)}

\* The type with the two outer constructors of ty exchanged.
Exchanged(ty) == [ty.first EXCEPT !.first = [ty EXCEPT !.first = ty.first.first]]

\* C14: a type built by nesting vector, multi-dimensional array, pointer and
\* by-ref constructors over a core type is printed as the core name followed
\* by the adornment in nesting order, so that an array whose elements are
\* pointers (T*[]) is printed differently from a pointer to an array (T[]*).
C14_AdornmentsComposeInNestingOrder ==
    AdornedCase =>
        /\ tOut.ok
        /\ tOut.output = GetTypeOfType(CoreOf(tIn.ty)).output
                         \o NestedAdornment(tIn.ty).fixed \o NestedAdornment(tIn.ty).arrays
        /\ (tIn.ty.elem = "SZARRAY" /\ tIn.ty.first.elem = "PTR")
               => tOut.output # GetTypeOfType(Exchanged(tIn.ty)).output

\* C15: GetTypeOfValue on a value never returns a failure: whichever query
\* fails, it returns success with the composed type name or with the
\* placeholder <unknown> in the output.
C15_NeverFailsTheCaller ==
    tpc = "done" => tOut.ok

(***************************************************************************)
(* Claims about the evaluation mutex                                       *)
(***************************************************************************)

\* The threads that are at an unlock of the mutex: the notifier at its
\* explicit unlock or at the destructor of its guard, a caller at the release
\* inside the wait or at the destructor of its lock.
AtUnlock ==
    {t \in evCallers : pc[t] \in {"cvwait", "unlock"}}
    \cup (IF npc \in {"unlock", "guard"} THEN {Notifier} ELSE {})

\* C17: every acquisition of the mutex is released once and by the thread
\* that holds it: a thread that is about to unlock the mutex owns it, so the
\* mutex is never unlocked while it is free or owned by another thread.
C17_UnlockOnlyByOwner ==
    \A t \in AtUnlock : g_evalMutex = t

(***************************************************************************)
(* Claims about overlapping evaluations                                    *)
(***************************************************************************)

\* No caller is going to resume the process again, and the event source has
\* delivered every notify it owed and is past its notify_one.
NothingToCome ==
    /\ \A u \in evCallers : callsLeft[u] = 0 /\ pc[u] \notin {"lock", "clear", "continue"}
    /\ pending = {}
    /\ npc \in {"idle", "guard"}

\* The caller is blocked in the wait and no notification is left for it.
BlockedForGood(t) ==
    /\ pc[t] = "blocked"
    /\ t \in cvWaiters
    /\ NothingToCome

\* C16: overlapping calls are neither queued nor rejected. The wait releases
\* the mutex, so that a second caller enters WaitEvalResult, clears the flag
\* and resumes the process while the first is blocked; and with one notify
\* per call, a caller that is still blocked when every notify has been
\* delivered stays blocked: only a spurious wake-up takes it out of the wait.
C16_OverlappingCallsAreNotSerialized ==
    [][ /\ \A t \in evCallers : (pc[t] = "blocked")' => (g_evalMutex # t)'
        /\ \A t \in evCallers :
              BlockedForGood(t) => (BlockedForGood(t)' \/ SpuriousWake(t)) ]_vars

\* Two overlapping calls, one notify each: the notify of the first call set
\* the flag, the second call cleared it before the first caller saw it, both
\* callers waited, and the second has returned with its result while the
\* first is blocked with every notify delivered.
C16_Witness ==
    \E t \in evCallers, u \in evCallers :
        /\ t # u
        /\ BlockedForGood(t)
        /\ hist[t].ownSet
        /\ hist[t].callNo = MaxOverlapCalls /\ hist[u].callNo = MaxOverlapCalls
        /\ hist[u].staleAtClear
        /\ hist[u].waited
        /\ hist[u].status = "ok"
        /\ pc[u] = "idle"

====
